---- MODULE Spec2Model ----
(***************************************************************************)
(* A model of simple_nmea_simulator: the route generators and the GPS      *)
(* tracker (gps_tracker.py), the sentence encoders (messages.py) and the   *)
(* simulator with its TCP fan-out (server.py).                             *)
(*                                                                         *)
(* Numbers.  The program computes in floating point; the model computes in *)
(* exact integer and rational arithmetic:                                  *)
(*   - a coordinate is an integer number of grid steps of a local chart;   *)
(*   - a distance is an integer number of distance units; one distance     *)
(*     unit is 0.514444 / MsPerKnot metres, so that a speed of one knot is *)
(*     exactly MsPerKnot units per second;                                 *)
(*   - time is an integer number of seconds;                               *)
(*   - an interpolated position is a pair of fractions with a common       *)
(*     denominator (lat/den, lon/den).                                     *)
(***************************************************************************)
EXTENDS Integers, Sequences, FiniteSets, TLC

\* ------------------------------------------------------------------ bounds

\* The clock runs from 0 to MaxTime seconds.
MaxTime == 8
\* Waypoint lists handed to the tracker have at most MaxWaypoints entries.
MaxWaypoints == 3
\* Speeds are 0 .. MaxKnots knots.
MaxKnots == 2
\* Whole laps compared by the wrap-around law.
MaxLaps == 2

\* gps_tracker.py:69 converts knots to m/s by the factor 0.514444; with the
\* distance unit chosen above the factor is this whole number.
MsPerKnot == 2

\* ------------------------------------------------------------- arithmetic

Abs(x) == IF x < 0 THEN -x ELSE x
Min(a, b) == IF a <= b THEN a ELSE b
Max(a, b) == IF a >= b THEN a ELSE b

\* math.sqrt, rounded down to a whole number.
ISqrt(n) == CHOOSE r \in 0..n : r * r <= n /\ (r + 1) * (r + 1) > n

\* math.atan of p/q in whole degrees, for 0 <= p <= q (0 .. 45 degrees).
ArcTanDeg(p, q) ==
    IF q = 0 THEN 0 ELSE (p * (45 * q + 16 * (q - p))) \div (q * q)

\* math.degrees(math.atan2(y, x)) in whole degrees, in -180 .. 180.
FirstQuadrant(y, x) == IF y <= x THEN ArcTanDeg(y, x) ELSE 90 - ArcTanDeg(x, y)
Atan2Deg(y, x) ==
    IF y >= 0
    THEN IF x >= 0 THEN FirstQuadrant(y, x) ELSE 180 - FirstQuadrant(y, -x)
    ELSE IF x >= 0 THEN -FirstQuadrant(-y, x) ELSE FirstQuadrant(-y, -x) - 180

\* ------------------------------------------------------ Waypoint, Position

Waypoint(lat, lon) == [lat |-> lat, lon |-> lon]

\* The waypoints that caller-supplied lists are drawn from.
WaypointPool == {Waypoint(0, 0), Waypoint(0, 4), Waypoint(4, 0)}

\* Waypoint.distance_to: the haversine distance.  On the local chart the
\* great-circle distance is the Euclidean one, here rounded down to whole
\* distance units; it is symmetric and zero exactly for equal coordinates.
DistanceTo(self, other) ==
    ISqrt((other.lat - self.lat) * (other.lat - self.lat)
          + (other.lon - self.lon) * (other.lon - self.lon))

\* Waypoint.bearing_to: the forward azimuth, normalised into [0, 360).
BearingTo(self, other) ==
    (Atan2Deg(other.lon - self.lon, other.lat - self.lat) + 360) % 360

\* messages.Position: a point lat/den, lon/den.
Position(lat, lon) == [lat |-> lat, lon |-> lon, den |-> 1]
NoPosition == [lat |-> 0, lon |-> 0, den |-> 0]
PosEq(p, q) ==
    /\ p.den # 0 /\ q.den # 0
    /\ p.lat * q.den = q.lat * p.den
    /\ p.lon * q.den = q.lon * p.den

\* --------------------------------------------------------- RouteConfig

\* Point counts given to create_line_route: 0 .. MaxLinePoints.
MaxLinePoints == 3
\* Point counts given to create_circular_route: those whose angles
\* 2*pi*i/n have whole sines and cosines.
CirclePointCounts == {0, 1, 2, 4}
\* Radii, widths and heights, in grid steps (even, so that halves are whole).
RouteSizes == {0, 4}

\* The outcome of a call: a returned value or a raised exception.
Returned(v) == [raised |-> "none", value |-> v]
Raised(e) == [raised |-> e, value |-> <<>>]

\* math.cos and math.sin of 2*pi*i/n for n in CirclePointCounts.
CosTurn(i, n) == IF 4 * i = 0 THEN 1 ELSE IF 4 * i = 2 * n THEN -1 ELSE 0
SinTurn(i, n) == IF 4 * i = n THEN 1 ELSE IF 4 * i = 3 * n THEN -1 ELSE 0

\* RouteConfig.create_circular_route: range(num_points) is empty for
\* num_points <= 0; nothing checks num_points.
create_circular_route(center_lat, center_lon, radius, num_points) ==
    Returned([k \in 1..Max(num_points, 0) |->
                Waypoint(center_lat + radius * CosTurn(k - 1, num_points),
                         center_lon + radius * SinTurn(k - 1, num_points))])

\* RouteConfig.create_line_route: progress = i / (num_points - 1) divides by
\* zero in the first iteration when num_points = 1; the loop body never runs
\* when num_points <= 0.
create_line_route(start_lat, start_lon, end_lat, end_lon, num_points) ==
    IF num_points <= 0 THEN Returned(<<>>)
    ELSE IF num_points = 1 THEN Raised("ZeroDivisionError")
    ELSE Returned([k \in 1..num_points |->
            Waypoint(start_lat + ((end_lat - start_lat) * (k - 1)) \div (num_points - 1),
                     start_lon + ((end_lon - start_lon) * (k - 1)) \div (num_points - 1))])

\* RouteConfig.create_rectangle_route: SW, SE, NE, NW and SW again.
create_rectangle_route(center_lat, center_lon, width, height) ==
    Returned(<< Waypoint(center_lat - height \div 2, center_lon - width \div 2),
                Waypoint(center_lat - height \div 2, center_lon + width \div 2),
                Waypoint(center_lat + height \div 2, center_lon + width \div 2),
                Waypoint(center_lat + height \div 2, center_lon - width \div 2),
                Waypoint(center_lat - height \div 2, center_lon - width \div 2) >>)

\* A list of waypoints supplied by the caller (Waypoint(...) literals, as in
\* NMEATCPServer._create_default_tracker).
WaypointLists == UNION {[1..n -> WaypointPool] : n \in 0..MaxWaypoints}

\* ------------------------------------------------------------- GPSTracker

\* GPSTracker._calculate_total_distance.
RECURSIVE ConsecutiveDistance(_, _)
ConsecutiveDistance(wps, i) ==
    IF i >= Len(wps) THEN 0
    ELSE DistanceTo(wps[i], wps[i + 1]) + ConsecutiveDistance(wps, i + 1)

calculate_total_distance_always_closed(wps) ==
    ConsecutiveDistance(wps, 1) + DistanceTo(wps[Len(wps)], wps[1])

calculate_total_distance(wps) ==
    ConsecutiveDistance(wps, 1)
    + (IF Len(wps) > 2 THEN DistanceTo(wps[Len(wps)], wps[1]) ELSE 0)

\* GPSTracker._interpolate_position, with progress = num / den clamped to
\* [0, 1]; den > 0.
interpolate_position(start, end, num, den) ==
    LET p == Max(0, Min(den, num))
    IN  [lat |-> start.lat * den + (end.lat - start.lat) * p,
         lon |-> start.lon * den + (end.lon - start.lon) * p,
         den |-> den]

\* The segment walked in iteration i (0-based) of get_current_position's
\* loop: waypoint i to waypoint i + 1, and the last waypoint to the first.
SegmentStart(wps, i) == wps[i + 1]
SegmentEnd(wps, i) == IF i = Len(wps) - 1 THEN wps[1] ELSE wps[i + 2]

\* The loop of get_current_position from iteration i on.  The outcome names
\* how the call ended (in a segment, past all segments, or by an exception),
\* the value written to current_waypoint_index and the position returned.
\* The loop with "<=" in its test: a segment is entered at its very end.
RECURSIVE FindSegmentAtOrBefore(_, _, _, _)
FindSegmentAtOrBefore(wps, distance_traveled, i, current_distance) ==
    IF i >= Len(wps)
    THEN [kind |-> "end", index |-> Len(wps) - 2,
          position |-> Position(wps[Len(wps)].lat, wps[Len(wps)].lon)]
    ELSE LET segment_start == SegmentStart(wps, i)
             segment_end == SegmentEnd(wps, i)
             segment_distance == DistanceTo(segment_start, segment_end)
         IN  IF distance_traveled <= current_distance + segment_distance
             THEN IF segment_distance = 0
                  THEN [kind |-> "ZeroDivisionError", index |-> -1,
                        position |-> NoPosition]
                  ELSE [kind |-> "segment", index |-> i,
                        position |-> interpolate_position(
                            segment_start, segment_end,
                            distance_traveled - current_distance,
                            segment_distance)]
             ELSE FindSegmentAtOrBefore(wps, distance_traveled, i + 1,
                                        current_distance + segment_distance)

RECURSIVE FindSegment(_, _, _, _)
FindSegment(wps, distance_traveled, i, current_distance) ==
    IF i >= Len(wps)
    THEN [kind |-> "end", index |-> Len(wps) - 2,
          position |-> Position(wps[Len(wps)].lat, wps[Len(wps)].lon)]
    ELSE LET segment_start == SegmentStart(wps, i)
             segment_end == SegmentEnd(wps, i)
             segment_distance == DistanceTo(segment_start, segment_end)
         IN  IF distance_traveled < current_distance + segment_distance
             THEN IF segment_distance = 0
                  THEN [kind |-> "ZeroDivisionError", index |-> -1,
                        position |-> NoPosition]
                  ELSE [kind |-> "segment", index |-> i,
                        position |-> interpolate_position(
                            segment_start, segment_end,
                            distance_traveled - current_distance,
                            segment_distance)]
             ELSE FindSegment(wps, distance_traveled, i + 1,
                              current_distance + segment_distance)

\* Lines 94-96 of get_current_position: the wrap of the distance travelled.
\* A float modulo by 0.0 raises ZeroDivisionError (-1 here).
WrapNoModuloAtEnd(distance_traveled, total) ==
    IF distance_traveled > total
    THEN IF total = 0 THEN -1 ELSE distance_traveled % total
    ELSE distance_traveled

Wrap(distance_traveled, total) ==
    IF distance_traveled >= total
    THEN IF total = 0 THEN -1 ELSE distance_traveled % total
    ELSE distance_traveled

\* GPSTracker.get_current_position at a distance travelled, for a tracker
\* with waypoints wps and total distance total.
PositionAtDistance(wps, total, distance_traveled) ==
    LET d == Wrap(distance_traveled, total)
    IN  IF d < 0
        THEN [kind |-> "ZeroDivisionError", index |-> -1, position |-> NoPosition]
        ELSE FindSegment(wps, d, 0, 0)

\* GPSTracker.get_current_heading for a tracker whose cached segment index
\* is index.
HeadingAtIndex(wps, index) ==
    IF index >= Len(wps) - 1
    THEN IF Len(wps) >= 2 THEN BearingTo(wps[Len(wps) - 1], wps[Len(wps)]) ELSE 0
    ELSE BearingTo(wps[index + 1], wps[index + 2])

\* GPSTracker.is_route_complete: elapsed_time >= total_distance / speed_ms,
\* in exact arithmetic; the division raises ZeroDivisionError for speed 0.
RouteCompleteStrict(elapsed_time, total, speed) ==
    IF speed = 0 THEN "ZeroDivisionError"
    ELSE IF elapsed_time * speed > total THEN "true" ELSE "false"

RouteComplete(elapsed_time, total, speed) ==
    IF speed = 0 THEN "ZeroDivisionError"
    ELSE IF speed > 0
         THEN (IF elapsed_time * speed >= total THEN "true" ELSE "false")
         ELSE (IF elapsed_time * speed <= total THEN "true" ELSE "false")

\* ------------------------------------------------------------------- text

\* A string of the program is a sequence of one-character strings.  The
\* tables list the ASCII characters the sentences use, in code order:
\* AsciiFrom35 from "#" (35) to "Z" (90), AsciiFrom97 from "a" (97) to "z".
AsciiFrom35 ==
    << "#", "$", "%", "&", "'", "(", ")", "*", "+", ",", "-", ".", "/",
       "0", "1", "2", "3", "4", "5", "6", "7", "8", "9", ":", ";", "<",
       "=", ">", "?", "@", "A", "B", "C", "D", "E", "F", "G", "H", "I",
       "J", "K", "L", "M", "N", "O", "P", "Q", "R", "S", "T", "U", "V",
       "W", "X", "Y", "Z" >>
AsciiFrom97 ==
    << "a", "b", "c", "d", "e", "f", "g", "h", "i", "j", "k", "l", "m",
       "n", "o", "p", "q", "r", "s", "t", "u", "v", "w", "x", "y", "z" >>
AsciiChars ==
    {"!"} \cup {AsciiFrom35[i] : i \in 1..Len(AsciiFrom35)}
          \cup {AsciiFrom97[i] : i \in 1..Len(AsciiFrom97)}
\* ord(c).
OrdTable ==
    [c \in AsciiChars |->
        IF c = "!" THEN 33
        ELSE IF \E i \in 1..Len(AsciiFrom35) : AsciiFrom35[i] = c
        THEN 34 + (CHOOSE i \in 1..Len(AsciiFrom35) : AsciiFrom35[i] = c)
        ELSE 96 + (CHOOSE i \in 1..Len(AsciiFrom97) : AsciiFrom97[i] = c)]
ord(c) == OrdTable[c]

RECURSIVE Concat(_)
Concat(parts) == IF parts = <<>> THEN <<>> ELSE Head(parts) \o Concat(Tail(parts))

\* str.join.
RECURSIVE Join(_, _)
Join(sep, parts) ==
    IF parts = <<>> THEN <<>>
    ELSE IF Len(parts) = 1 THEN parts[1]
    ELSE parts[1] \o sep \o Join(sep, Tail(parts))

\* The ^ of two integers >= 0.
RECURSIVE BitXor(_, _)
BitXor(a, b) ==
    IF a = 0 THEN b
    ELSE IF b = 0 THEN a
    ELSE (((a % 2) + (b % 2)) % 2) + 2 * BitXor(a \div 2, b \div 2)

DecDigits == <<"0", "1", "2", "3", "4", "5", "6", "7", "8", "9">>
HexDigitsUpper == DecDigits \o <<"A", "B", "C", "D", "E", "F">>
HexDigitsLower == DecDigits \o <<"a", "b", "c", "d", "e", "f">>

RECURSIVE Pow10(_)
Pow10(k) == IF k = 0 THEN 1 ELSE 10 * Pow10(k - 1)

\* str(n) for n >= 0.
RECURSIVE DecStr(_)
DecStr(n) == IF n < 10 THEN <<DecDigits[n + 1]>>
             ELSE DecStr(n \div 10) \o <<DecDigits[(n % 10) + 1]>>

\* The text t padded on the left with zeros to width w.
RECURSIVE ZeroPad(_, _)
ZeroPad(t, w) == IF Len(t) >= w THEN t ELSE ZeroPad(<<"0">> \o t, w)

\* f"{n:0wd}" for n >= 0.
FormatInt(n, w) == ZeroPad(DecStr(n), w)

\* ----------------------------------------------------------------- floats

\* A float is modelled by the exact fraction n/d in lowest terms, d > 0.
RECURSIVE GCD(_, _)
GCD(a, b) == IF b = 0 THEN a ELSE GCD(b, a % b)
Rat(n, d) ==
    LET g == GCD(Abs(n), Abs(d))
        s == IF d < 0 THEN -1 ELSE 1
    IN  [n |-> (s * n) \div g, d |-> (s * d) \div g]
Whole(k) == [n |-> k, d |-> 1]
RMul(a, b) ==
    LET g1 == GCD(Abs(a.n), b.d)
        g2 == GCD(Abs(b.n), a.d)
    IN  Rat((a.n \div g1) * (b.n \div g2), (a.d \div g2) * (b.d \div g1))
RAdd(a, b) ==
    LET g == GCD(a.d, b.d)
    IN  Rat(a.n * (b.d \div g) + b.n * (a.d \div g), (a.d \div g) * b.d)
RSub(a, b) == RAdd(a, [n |-> -b.n, d |-> b.d])
RLess(a, b) == a.n * b.d < b.n * a.d
RMax(a, b) == IF RLess(a, b) THEN b ELSE a
\* int(x): truncation towards zero.
RTrunc(a) == IF a.n >= 0 THEN a.n \div a.d ELSE -((-a.n) \div a.d)
\* x % m for a whole modulus m > 0 (the result has the sign of m).
RMod(a, m) == Rat(a.n % (m * a.d), a.d)

\* <<(k * r) \div d, (k * r) % d>> for 0 <= r < d, by k additions of r that
\* never leave the range of d.
RECURSIVE TimesOver(_, _, _)
TimesOver(r, d, k) ==
    IF k = 0 THEN << 0, 0 >>
    ELSE LET p == TimesOver(r, d, k - 1)
         IN  IF p[2] >= d - r THEN << p[1] + 1, p[2] - (d - r) >>
             ELSE << p[1], p[2] + r >>

\* floor(|x| * 10^k), carrying the remainder of the long division:
\* Scaled(x, k) = <<floor, remainder>> with |x| * 10^k = floor + remainder/d.
RECURSIVE Scaled(_, _)
Scaled(a, k) ==
    IF k = 0 THEN << Abs(a.n) \div a.d, Abs(a.n) % a.d >>
    ELSE LET s == Scaled(a, k - 1)
             t == TimesOver(s[2], a.d, 10)
         IN  << s[1] * 10 + t[1], t[2] >>

\* |x| * 10^k rounded to the nearest whole number, ties to even: what the
\* format specification .kf prints.
RoundScaled(a, k) ==
    LET s == Scaled(a, k)
    IN  IF s[2] > a.d - s[2] \/ (s[2] = a.d - s[2] /\ s[1] % 2 = 1)
        THEN s[1] + 1 ELSE s[1]

\* f"{x:.kf}": sign, whole part, point, k decimals.
FormatFixed(a, k) ==
    LET m == RoundScaled(a, k)
    IN  (IF a.n < 0 THEN <<"-">> ELSE <<>>)
        \o DecStr(m \div Pow10(k)) \o <<".">> \o ZeroPad(DecStr(m % Pow10(k)), k)

\* f"{x:0w.kf}" for x >= 0: the same, zero-padded on the left to width w.
FormatFixedPadded(a, w, k) == ZeroPad(FormatFixed(a, k), w)

\* --------------------------------------------------------------- messages

\* Draws of the random module: random.random() returns r / RandomSteps for
\* a whole r in 0 .. RandomSteps - 1 (a value in [0, 1)).  The grid is one
\* of quarters: a power of two, as the grid of random.random() is, on which
\* every product of the renderers stays an exact fraction of machine size.
RandomSteps == 4
\* The random source of one generate_messages call: the draws repeat with
\* this period, so the k-th draw of the call is rnd[k mod RandomPeriod].
RandomPeriod == 1
RandomSources == [1..RandomPeriod -> 0..(RandomSteps - 1)]
Draw(rnd, k) == rnd[((k - 1) % Len(rnd)) + 1]

\* One grid step of the chart is 1/StepsPerDegree of a degree (the length of
\* one distance unit along a meridian: a knot is one arc minute per hour).
StepsPerDegree == 432000

\* to_nmea_lat with the hemisphere taken from lat > 0.
to_nmea_lat_zero_south(self) ==
    LET abs_lat == Rat(Abs(self.lat), self.den * StepsPerDegree)
        degrees == RTrunc(abs_lat)
        minutes == RMul(RSub(abs_lat, Whole(degrees)), Whole(60))
        direction == IF self.lat > 0 THEN <<"N">> ELSE <<"S">>
    IN  << FormatInt(degrees, 2) \o FormatFixedPadded(minutes, 9, 6), direction >>

\* Position.to_nmea_lat: (DDMM.MMMMMM, N/S).
to_nmea_lat(self) ==
    LET abs_lat == Rat(Abs(self.lat), self.den * StepsPerDegree)
        degrees == RTrunc(abs_lat)
        minutes == RMul(RSub(abs_lat, Whole(degrees)), Whole(60))
        direction == IF self.lat >= 0 THEN <<"N">> ELSE <<"S">>
    IN  << FormatInt(degrees, 2) \o FormatFixedPadded(minutes, 9, 6), direction >>

\* Position.to_nmea_lon: (DDDMM.MMMMMM, E/W).
to_nmea_lon(self) ==
    LET abs_lon == Rat(Abs(self.lon), self.den * StepsPerDegree)
        degrees == RTrunc(abs_lon)
        minutes == RMul(RSub(abs_lon, Whole(degrees)), Whole(60))
        direction == IF self.lon >= 0 THEN <<"E">> ELSE <<"W">>
    IN  << FormatInt(degrees, 3) \o FormatFixedPadded(minutes, 9, 6), direction >>

\* NMEAMessage.calculate_checksum: the XOR of the character codes, as two
\* upper-case hexadecimal digits.
\* The loop "for char in data: checksum ^= ord(char)" over data[lo..hi]; the
\* XORs are bracketed by halves, left to right.
RECURSIVE XorOrd(_, _, _)
XorOrd(data, lo, hi) ==
    IF lo > hi THEN 0
    ELSE IF lo = hi THEN ord(data[lo])
    ELSE LET mid == (lo + hi) \div 2
         IN  BitXor(XorOrd(data, lo, mid), XorOrd(data, mid + 1, hi))

calculate_checksum_unpadded(data) ==
    LET checksum == XorOrd(data, 1, Len(data))
    IN  IF checksum < 16 THEN <<HexDigitsUpper[checksum + 1]>>
        ELSE << HexDigitsUpper[(checksum \div 16) + 1],
                HexDigitsUpper[(checksum % 16) + 1] >>

calculate_checksum(data) ==
    LET checksum == XorOrd(data, 1, Len(data))
    IN  << HexDigitsUpper[(checksum \div 16) + 1],
           HexDigitsUpper[(checksum % 16) + 1] >>

\* NMEAMessage.add_random_variation with random.random() = r / RandomSteps.
add_random_variation(value, variation_percent, r) ==
    LET variation == RMul(RMul(value, variation_percent),
                          Rat(2 * r - RandomSteps, RandomSteps))
    IN  RAdd(value, variation)

\* A timestamp (datetime.now(timezone.utc)) is the clock's whole second of
\* the day; the day itself is 1 January 2000.
\* NMEAMessage.format_time: HHMMSS.mmm.
format_time(timestamp) ==
    FormatInt(timestamp \div 3600, 2) \o FormatInt((timestamp \div 60) % 60, 2)
    \o FormatInt(timestamp % 60, 2) \o <<".", "0", "0", "0">>
\* timestamp.strftime('%d%m%y')
format_date(timestamp) == <<"0", "1", "0", "1", "0", "0">>
\* timestamp.strftime('%d,%m,%Y')
format_date_zda(timestamp) == <<"0", "1", ",", "0", "1", ",", "2", "0", "0", "0">>

\* class GPRMC: GPS recommended minimum sentence.
GPRMC(position, knots, course, timestamp) ==
    [sentence_type |-> "GPRMC", timestamp |-> timestamp,
     position |-> position,
     speed_knots |-> knots,
     course |-> course]
GPRMC_to_string(self, rnd, k) ==
    LET lat == to_nmea_lat(self.position)
        lon == to_nmea_lon(self.position)
        speed == add_random_variation(self.speed_knots, Rat(5, 100), Draw(rnd, k))
        course == add_random_variation(self.course, Rat(10, 100), Draw(rnd, k + 1))
        data == Concat(<< <<"$", "G", "P", "R", "M", "C", ",">>,
               format_time(self.timestamp),
               <<",", "A", ",">>,
               lat[1],
               <<",">>,
               lat[2],
               <<",">>,
               lon[1],
               <<",">>,
               lon[2],
               <<",">>,
               FormatFixed(speed, 1),
               <<",">>,
               FormatFixed(course, 1),
               <<",">>,
               format_date(self.timestamp),
               <<",", ",", ",", "*">> >>)
        checksum == calculate_checksum(SubSeq(data, 2, Len(data) - 1))
    IN  data \o checksum

\* class IIVHW: water speed and heading.
IIVHW(knots, heading, timestamp) ==
    [sentence_type |-> "IIVHW", timestamp |-> timestamp,
     speed_knots |-> knots,
     heading |-> heading]
IIVHW_to_string(self, rnd, k) ==
    LET speed == add_random_variation(self.speed_knots, Rat(5, 100), Draw(rnd, k))
        heading == add_random_variation(self.heading, Rat(10, 100), Draw(rnd, k + 1))
        speed_kmh == RMul(speed, Rat(1852, 1000))
        data == Concat(<< <<"$", "I", "I", "V", "H", "W", ",">>,
               FormatFixed(heading, 1),
               <<",", "T", ",">>,
               FormatFixed(heading, 1),
               <<",", "M", ",">>,
               FormatFixed(speed, 1),
               <<",", "N", ",">>,
               FormatFixed(speed_kmh, 1),
               <<",", "K", "*">> >>)
        checksum == calculate_checksum(SubSeq(data, 2, Len(data) - 1))
    IN  data \o checksum

\* class GPVTG: track made good and ground speed.
GPVTG(course, knots, timestamp) ==
    [sentence_type |-> "GPVTG", timestamp |-> timestamp,
     course |-> course,
     speed_knots |-> knots]
GPVTG_to_string(self, rnd, k) ==
    LET course == add_random_variation(self.course, Rat(10, 100), Draw(rnd, k))
        speed == add_random_variation(self.speed_knots, Rat(5, 100), Draw(rnd, k + 1))
        speed_kmh == RMul(speed, Rat(1852, 1000))
        data == Concat(<< <<"$", "G", "P", "V", "T", "G", ",">>,
               FormatFixed(course, 1),
               <<",", "T", ",">>,
               FormatFixed(course, 1),
               <<",", "M", ",">>,
               FormatFixed(speed, 1),
               <<",", "N", ",">>,
               FormatFixed(speed_kmh, 1),
               <<",", "K", "*">> >>)
        checksum == calculate_checksum(SubSeq(data, 2, Len(data) - 1))
    IN  data \o checksum

\* class IIHDT: heading.
IIHDT(heading, timestamp) ==
    [sentence_type |-> "IIHDT", timestamp |-> timestamp,
     heading |-> heading]
IIHDT_to_string(self, rnd, k) ==
    LET heading == add_random_variation(self.heading, Rat(10, 100), Draw(rnd, k))
        data == Concat(<< <<"$", "I", "I", "H", "D", "T", ",">>,
               FormatFixed(heading, 1),
               <<",", "T", "*">> >>)
        checksum == calculate_checksum(SubSeq(data, 2, Len(data) - 1))
    IN  data \o checksum

\* class GPGLL: geographic position.
GPGLL(position, timestamp) ==
    [sentence_type |-> "GPGLL", timestamp |-> timestamp,
     position |-> position]
GPGLL_to_string(self, rnd, k) ==
    LET lat == to_nmea_lat(self.position)
        lon == to_nmea_lon(self.position)
        data == Concat(<< <<"$", "G", "P", "G", "L", "L", ",">>,
               lat[1],
               <<",">>,
               lat[2],
               <<",">>,
               lon[1],
               <<",">>,
               lon[2],
               <<",">>,
               format_time(self.timestamp),
               <<",", "A", "*">> >>)
        checksum == calculate_checksum(SubSeq(data, 2, Len(data) - 1))
    IN  data \o checksum

\* class GPGGA: GPS fix data.
GPGGA(position, quality, satellites, hdop, altitude, timestamp) ==
    [sentence_type |-> "GPGGA", timestamp |-> timestamp,
     position |-> position,
     quality |-> quality,
     satellites |-> satellites,
     hdop |-> hdop,
     altitude |-> altitude]
GPGGA_to_string(self, rnd, k) ==
    LET lat == to_nmea_lat(self.position)
        lon == to_nmea_lon(self.position)
        satellites == Max(1, RTrunc(add_random_variation(self.satellites, Rat(20, 100), Draw(rnd, k))))
        hdop == RMax(Rat(5, 10), add_random_variation(self.hdop, Rat(30, 100), Draw(rnd, k + 1)))
        altitude == add_random_variation(self.altitude, Rat(10, 100), Draw(rnd, k + 2))
        data == Concat(<< <<"$", "G", "P", "G", "G", "A", ",">>,
               format_time(self.timestamp),
               <<",">>,
               lat[1],
               <<",">>,
               lat[2],
               <<",">>,
               lon[1],
               <<",">>,
               lon[2],
               <<",">>,
               DecStr(self.quality),
               <<",">>,
               DecStr(satellites),
               <<",">>,
               FormatFixed(hdop, 1),
               <<",">>,
               FormatFixed(altitude, 1),
               <<",", "M", ",", ",", ",", ",", "*">> >>)
        checksum == calculate_checksum(SubSeq(data, 2, Len(data) - 1))
    IN  data \o checksum

\* class GPGSA: GPS DOP and active satellites.
GPGSA(satellites, pdop, hdop, vdop, timestamp) ==
    [sentence_type |-> "GPGSA", timestamp |-> timestamp,
     satellites |-> satellites,
     pdop |-> pdop,
     hdop |-> hdop,
     vdop |-> vdop]
GPGSA_to_string(self, rnd, k) ==
    LET pdop == RMax(Rat(5, 10), add_random_variation(self.pdop, Rat(20, 100), Draw(rnd, k)))
        hdop == RMax(Rat(5, 10), add_random_variation(self.hdop, Rat(20, 100), Draw(rnd, k + 1)))
        vdop == RMax(Rat(5, 10), add_random_variation(self.vdop, Rat(20, 100), Draw(rnd, k + 2)))
        sat_list == Join(<<",">>, [sat \in 1..12 |-> IF sat \in self.satellites THEN DecStr(sat) ELSE <<>>])
        data == Concat(<< <<"$", "G", "P", "G", "S", "A", ",", "A", ",", "3", ",">>,
               sat_list,
               <<",">>,
               FormatFixed(pdop, 1),
               <<",">>,
               FormatFixed(hdop, 1),
               <<",">>,
               FormatFixed(vdop, 1),
               <<"*">> >>)
        checksum == calculate_checksum(SubSeq(data, 2, Len(data) - 1))
    IN  data \o checksum

\* class GPZDA: time and date.
GPZDA(timestamp) ==
    [sentence_type |-> "GPZDA", timestamp |-> timestamp]
GPZDA_to_string(self, rnd, k) ==
    LET data == Concat(<< <<"$", "G", "P", "Z", "D", "A", ",">>,
               format_time(self.timestamp),
               <<",">>,
               format_date_zda(self.timestamp),
               <<",", "0", "2", ",", "0", "0", "*">> >>)
        checksum == calculate_checksum(SubSeq(data, 2, Len(data) - 1))
    IN  data \o checksum

\* class IIVBW: water referenced speed.
IIVBW(knots, timestamp) ==
    [sentence_type |-> "IIVBW", timestamp |-> timestamp,
     speed_knots |-> knots]
IIVBW_to_string(self, rnd, k) ==
    LET speed == add_random_variation(self.speed_knots, Rat(5, 100), Draw(rnd, k))
        s90 == FormatFixed(RMul(speed, Rat(9, 10)), 1)
        data == Concat(<< <<"$", "I", "I", "V", "B", "W", ",">>,
               FormatFixed(speed, 1),
               <<",">>,
               FormatFixed(speed, 1),
               <<",", "A", ",">>,
               s90,
               <<",">>,
               s90,
               <<",", "A", ",">>,
               FormatFixed(RMul(speed, Rat(11, 10)), 1),
               <<",", "A", ",">>,
               FormatFixed(RMul(speed, Rat(95, 100)), 1),
               <<",", "A", "*">> >>)
        checksum == calculate_checksum(SubSeq(data, 2, Len(data) - 1))
    IN  data \o checksum

\* class WIMWD: wind direction and speed.
WIMWD(wind_direction, wind_speed_knots, timestamp) ==
    [sentence_type |-> "WIMWD", timestamp |-> timestamp,
     wind_direction |-> wind_direction,
     wind_speed_knots |-> wind_speed_knots]
WIMWD_to_string(self, rnd, k) ==
    LET direction == add_random_variation(self.wind_direction, Rat(10, 100), Draw(rnd, k))
        speed == add_random_variation(self.wind_speed_knots, Rat(10, 100), Draw(rnd, k + 1))
        wind_ms == RMul(speed, Rat(514444, 1000000))
        data == Concat(<< <<"$", "W", "I", "M", "W", "D", ",">>,
               FormatFixed(direction, 1),
               <<",", "T", ",">>,
               FormatFixed(direction, 1),
               <<",", "M", ",">>,
               FormatFixed(speed, 1),
               <<",", "N", ",">>,
               FormatFixed(wind_ms, 1),
               <<",", "M", "*">> >>)
        checksum == calculate_checksum(SubSeq(data, 2, Len(data) - 1))
    IN  data \o checksum

\* class WIMWV: wind speed and angle.
WIMWV(wind_direction, wind_speed_knots, timestamp) ==
    [sentence_type |-> "WIMWV", timestamp |-> timestamp,
     wind_direction |-> wind_direction,
     wind_speed_knots |-> wind_speed_knots]
WIMWV_to_string(self, rnd, k) ==
    LET direction == add_random_variation(self.wind_direction, Rat(10, 100), Draw(rnd, k))
        speed == add_random_variation(self.wind_speed_knots, Rat(10, 100), Draw(rnd, k + 1))
        data == Concat(<< <<"$", "W", "I", "M", "W", "V", ",">>,
               FormatFixed(direction, 1),
               <<",", "R", ",">>,
               FormatFixed(speed, 1),
               <<",", "N", ",", "A", "*">> >>)
        checksum == calculate_checksum(SubSeq(data, 2, Len(data) - 1))
    IN  data \o checksum

\* class IIMTW: water temperature.
IIMTW(temperature_celsius, timestamp) ==
    [sentence_type |-> "IIMTW", timestamp |-> timestamp,
     temperature_celsius |-> temperature_celsius]
IIMTW_to_string(self, rnd, k) ==
    LET temp == add_random_variation(self.temperature_celsius, Rat(5, 100), Draw(rnd, k))
        data == Concat(<< <<"$", "I", "I", "M", "T", "W", ",">>,
               FormatFixed(temp, 1),
               <<",", "C", "*">> >>)
        checksum == calculate_checksum(SubSeq(data, 2, Len(data) - 1))
    IN  data \o checksum

\* class SDDPT: depth of water.
SDDPT(depth_meters, offset, timestamp) ==
    [sentence_type |-> "SDDPT", timestamp |-> timestamp,
     depth_meters |-> depth_meters,
     offset |-> offset]
SDDPT_to_string(self, rnd, k) ==
    LET depth == add_random_variation(self.depth_meters, Rat(10, 100), Draw(rnd, k))
        data == Concat(<< <<"$", "S", "D", "D", "P", "T", ",">>,
               FormatFixed(depth, 1),
               <<",">>,
               FormatFixed(self.offset, 1),
               <<"*">> >>)
        checksum == calculate_checksum(SubSeq(data, 2, Len(data) - 1))
    IN  data \o checksum

\* class SDDBT: depth below transducer.
SDDBT(depth_feet, depth_meters, depth_fathoms, timestamp) ==
    [sentence_type |-> "SDDBT", timestamp |-> timestamp,
     depth_feet |-> depth_feet,
     depth_meters |-> depth_meters,
     depth_fathoms |-> depth_fathoms]
SDDBT_to_string(self, rnd, k) ==
    LET depth_f == add_random_variation(self.depth_feet, Rat(10, 100), Draw(rnd, k))
        depth_m == add_random_variation(self.depth_meters, Rat(10, 100), Draw(rnd, k + 1))
        depth_fathoms == add_random_variation(self.depth_fathoms, Rat(10, 100), Draw(rnd, k + 2))
        data == Concat(<< <<"$", "S", "D", "D", "B", "T", ",">>,
               FormatFixed(depth_f, 1),
               <<",", "f", ",">>,
               FormatFixed(depth_m, 1),
               <<",", "M", ",">>,
               FormatFixed(depth_fathoms, 1),
               <<",", "F", "*">> >>)
        checksum == calculate_checksum(SubSeq(data, 2, Len(data) - 1))
    IN  data \o checksum

\* class IIRPM: engine RPM.
IIRPM(engine_id, rpm, pitch, timestamp) ==
    [sentence_type |-> "IIRPM", timestamp |-> timestamp,
     engine_id |-> engine_id,
     rpm |-> rpm,
     pitch |-> pitch]
IIRPM_to_string(self, rnd, k) ==
    LET rpm == add_random_variation(self.rpm, Rat(5, 100), Draw(rnd, k))
        pitch == add_random_variation(self.pitch, Rat(10, 100), Draw(rnd, k + 1))
        data == Concat(<< <<"$", "I", "I", "R", "P", "M", ",">>,
               self.engine_id,
               <<",">>,
               self.engine_id,
               <<",">>,
               FormatFixed(rpm, 1),
               <<",">>,
               FormatFixed(pitch, 1),
               <<",", "A", "*">> >>)
        checksum == calculate_checksum(SubSeq(data, 2, Len(data) - 1))
    IN  data \o checksum

\* class IIAPB: autopilot sentence B.
IIAPB(bearing_to_dest, bearing_to_dest_mag, heading, timestamp) ==
    [sentence_type |-> "IIAPB", timestamp |-> timestamp,
     bearing_to_dest |-> bearing_to_dest,
     bearing_to_dest_mag |-> bearing_to_dest_mag,
     heading |-> heading]
IIAPB_to_string(self, rnd, k) ==
    LET bearing == add_random_variation(self.bearing_to_dest, Rat(10, 100), Draw(rnd, k))
        bearing_mag == add_random_variation(self.bearing_to_dest_mag, Rat(10, 100), Draw(rnd, k + 1))
        heading == add_random_variation(self.heading, Rat(10, 100), Draw(rnd, k + 2))
        data == Concat(<< <<"$", "I", "I", "A", "P", "B", ",", "A", ",", "A", ",">>,
               FormatFixed(bearing, 6),
               <<",", "R", ",", "N", ",", ",", ",">>,
               FormatFixed(heading, 1),
               <<",", "T", ",", "d", "e", "s", "t", ",">>,
               FormatFixed(bearing_mag, 1),
               <<",", "T", ",">>,
               FormatFixed(bearing_mag, 1),
               <<",", "T", ",", "A", "*">> >>)
        checksum == calculate_checksum(SubSeq(data, 2, Len(data) - 1))
    IN  data \o checksum

\* class GPRMB: recommended minimum navigation information.
GPRMB(position, bearing, distance, speed, heading, timestamp) ==
    [sentence_type |-> "GPRMB", timestamp |-> timestamp,
     position |-> position,
     bearing |-> bearing,
     distance |-> distance,
     speed |-> speed,
     heading |-> heading]
GPRMB_to_string(self, rnd, k) ==
    LET lat == to_nmea_lat(self.position)
        lon == to_nmea_lon(self.position)
        bearing == add_random_variation(self.bearing, Rat(10, 100), Draw(rnd, k))
        distance == add_random_variation(self.distance, Rat(5, 100), Draw(rnd, k + 1))
        speed == add_random_variation(self.speed, Rat(5, 100), Draw(rnd, k + 2))
        heading == add_random_variation(self.heading, Rat(10, 100), Draw(rnd, k + 3))
        data == Concat(<< <<"$", "G", "P", "R", "M", "B", ",", "A", ",">>,
               FormatFixed(bearing, 6),
               <<",", "R", ",", "o", "r", "i", "g", "i", "n", ",", "d", "e", "s", "t", ",">>,
               lat[1],
               <<",">>,
               lat[2],
               <<",">>,
               lon[1],
               <<",">>,
               lon[2],
               <<",">>,
               FormatFixed(distance, 3),
               <<",">>,
               FormatFixed(heading, 1),
               <<",", "-", "1", ".", "4", ",", ",", "A", "*">> >>)
        checksum == calculate_checksum(SubSeq(data, 2, Len(data) - 1))
    IN  data \o checksum

\* class AIVDO: AIS VDO (own vessel) sentence.
AIVDO(message_id, fragment_count, fragment_number, radio_channel, payload, timestamp) ==
    [sentence_type |-> "AIVDO", timestamp |-> timestamp,
     message_id |-> message_id,
     fragment_count |-> fragment_count,
     fragment_number |-> fragment_number,
     radio_channel |-> radio_channel,
     payload |-> payload]
AIVDO_to_string(self, rnd, k) ==
    LET data == Concat(<< <<"!", "A", "I", "V", "D", "O", ",">>,
               DecStr(self.fragment_count),
               <<",">>,
               DecStr(self.fragment_number),
               <<",", ",">>,
               self.radio_channel,
               <<",">>,
               self.payload,
               <<",">>,
               DecStr(self.fragment_number),
               <<"*">> >>)
        checksum == calculate_checksum(SubSeq(data, 2, Len(data) - 1))
    IN  data \o checksum

\* class AIVDM: AIS VDM sentence.
AIVDM(message_id, fragment_count, fragment_number, radio_channel, payload, timestamp) ==
    [sentence_type |-> "AIVDM", timestamp |-> timestamp,
     message_id |-> message_id,
     fragment_count |-> fragment_count,
     fragment_number |-> fragment_number,
     radio_channel |-> radio_channel,
     payload |-> payload]
AIVDM_to_string(self, rnd, k) ==
    LET data == Concat(<< <<"!", "A", "I", "V", "D", "M", ",">>,
               DecStr(self.fragment_count),
               <<",">>,
               DecStr(self.fragment_number),
               <<",", ",">>,
               self.radio_channel,
               <<",">>,
               self.payload,
               <<",">>,
               DecStr(self.fragment_number),
               <<"*">> >>)
        checksum == calculate_checksum(SubSeq(data, 2, Len(data) - 1))
    IN  data \o checksum

\* -------------------------------------------------------------- simulator

\* NMEASimulator.__init__: the seed values of the environmental data.
InitialEnvironment ==
    [engine_rpm |-> Rat(6120, 10), engine_pitch |-> Rat(105, 10),
     wind_direction |-> Rat(2551, 10), wind_speed |-> Rat(278, 10),
     water_temp |-> Rat(67, 10), depth |-> Rat(22, 10)]

\* NMEASimulator.ais_payloads.
ais_payloads ==
    << <<"1", "7", "P", "a", "e", "w", "h", "P", "0", "g", "a", "r", "0", "F", "k", "c", "v", "G", "4", "h", "B", "h", ">", "t", "0", "0", "0", "0">>,
       <<"5", "7", "P", "a", "e", "w", "h", "0", "0", "0", "0", "1", "<", "T", "o", "7", ";", "?", "@", "p", "l", "D", "5", "<", "T", "l", "0", "0", "0", "0", "0", "0", "0", "0", "0", "0", "0", "0", "0", "U", "1", "@", ":", "5", "5", "2", "R", "8", "R", "2", "T", "n", "A", "3", "Q", "F">>,
       <<"@", "0", "0", "0", "0", "0", "0", "0", "0", "0", "0", "0", "0", "0", "2">> >>

\* random.uniform(a, b) = a + (b - a) * random.random().
uniform(a, b, r) == RAdd(a, RMul(RSub(b, a), Rat(r, RandomSteps)))

\* _update_environmental_data with the depth clamped at 0, as the other
\* fields are.
update_environmental_data_depth_floor_zero(e, rnd) ==
    [wind_direction |->
        RMod(RAdd(e.wind_direction, uniform(Whole(-2), Whole(2), Draw(rnd, 1))), 360),
     wind_speed |->
        RMax(Whole(0), RAdd(e.wind_speed, uniform(Whole(-1), Whole(1), Draw(rnd, 2)))),
     water_temp |->
        RMax(Whole(0), RAdd(e.water_temp, uniform(Rat(-2, 10), Rat(2, 10), Draw(rnd, 3)))),
     depth |->
        RMax(Whole(0), RAdd(e.depth, uniform(Rat(-1, 10), Rat(1, 10), Draw(rnd, 4)))),
     engine_rpm |->
        RMax(Whole(0), RAdd(e.engine_rpm, uniform(Whole(-5), Whole(5), Draw(rnd, 5)))),
     engine_pitch |->
        RMax(Whole(0), RAdd(e.engine_pitch, uniform(Rat(-5, 10), Rat(5, 10), Draw(rnd, 6))))]

\* NMEASimulator._update_environmental_data: one step of the random walk,
\* with the call's draws 1 .. 6.
update_environmental_data(e, rnd) ==
    [wind_direction |->
        RMod(RAdd(e.wind_direction, uniform(Whole(-2), Whole(2), Draw(rnd, 1))), 360),
     wind_speed |->
        RMax(Whole(0), RAdd(e.wind_speed, uniform(Whole(-1), Whole(1), Draw(rnd, 2)))),
     water_temp |->
        RMax(Whole(0), RAdd(e.water_temp, uniform(Rat(-2, 10), Rat(2, 10), Draw(rnd, 3)))),
     depth |->
        RMax(Rat(1, 10), RAdd(e.depth, uniform(Rat(-1, 10), Rat(1, 10), Draw(rnd, 4)))),
     engine_rpm |->
        RMax(Whole(0), RAdd(e.engine_rpm, uniform(Whole(-5), Whole(5), Draw(rnd, 5)))),
     engine_pitch |->
        RMax(Whole(0), RAdd(e.engine_pitch, uniform(Rat(-5, 10), Rat(5, 10), Draw(rnd, 6))))]

\* NMEASimulator.generate_messages, lines 62-98: the GPS, water, wind,
\* depth, engine and navigation sentences, in the order they are appended.
\* e is the environmental data after the update, t the timestamp; the
\* draws of the sentences follow the six of the update.
nmea_messages(position, heading, speed, e, t, rnd) ==
    << GPRMC_to_string(GPRMC(position, speed, heading, t), rnd, 7),
       IIVHW_to_string(IIVHW(speed, heading, t), rnd, 9),
       GPVTG_to_string(GPVTG(heading, speed, t), rnd, 11),
       IIHDT_to_string(IIHDT(heading, t), rnd, 13),
       GPGLL_to_string(GPGLL(position, t), rnd, 14),
       GPGGA_to_string(GPGGA(position, 1, Whole(4), Whole(1), Whole(2), t), rnd, 14),
       GPGSA_to_string(GPGSA({8, 11, 15, 22}, Whole(2), Whole(1), Whole(1), t), rnd, 17),
       GPZDA_to_string(GPZDA(t), rnd, 20),
       IIVBW_to_string(IIVBW(speed, t), rnd, 20),
       WIMWD_to_string(WIMWD(e.wind_direction, e.wind_speed, t), rnd, 21),
       WIMWV_to_string(WIMWV(e.wind_direction, e.wind_speed, t), rnd, 23),
       IIMTW_to_string(IIMTW(e.water_temp, t), rnd, 25),
       SDDPT_to_string(SDDPT(e.depth, Rat(3, 10), t), rnd, 26),
       SDDBT_to_string(SDDBT(RMul(e.depth, Rat(328084, 100000)), e.depth,
                             RMul(e.depth, Rat(546807, 1000000)), t), rnd, 27),
       IIRPM_to_string(IIRPM(<<"1">>, e.engine_rpm, e.engine_pitch, t), rnd, 30),
       IIRPM_to_string(IIRPM(<<"2">>, Whole(0), e.engine_pitch, t), rnd, 32),
       IIAPB_to_string(IIAPB(Rat(12140, 1000000), Rat(2604, 10), heading, t), rnd, 34),
       GPRMB_to_string(GPRMB(position, Rat(12140, 1000000), Rat(3573, 1000),
                             speed, heading, t), rnd, 37) >>

\* NMEASimulator.generate_messages, lines 100-106: the AIS sentences.
ais_messages(t, rnd) ==
    << AIVDO_to_string(AIVDO(1, 1, 1, <<"A">>, ais_payloads[1], t), rnd, 41),
       AIVDM_to_string(AIVDM(1, 1, 1, <<"A">>, ais_payloads[1], t), rnd, 41),
       AIVDO_to_string(AIVDO(2, 1, 9, <<"A">>, ais_payloads[2], t), rnd, 41),
       AIVDO_to_string(AIVDO(2, 2, 9, <<"A">>, ais_payloads[3], t), rnd, 41),
       AIVDM_to_string(AIVDM(2, 1, 9, <<"A">>, ais_payloads[2], t), rnd, 41),
       AIVDM_to_string(AIVDM(2, 2, 9, <<"A">>, ais_payloads[3], t), rnd, 41) >>

\* The list generate_messages returns.
generate_messages_ais_first(position, heading, speed, e, t, rnd) ==
    ais_messages(t, rnd) \o nmea_messages(position, heading, speed, e, t, rnd)

generate_messages(position, heading, speed, e, t, rnd) ==
    nmea_messages(position, heading, speed, e, t, rnd) \o ais_messages(t, rnd)

\* ------------------------------------------------------------------ state

VARIABLES
    route,                  \* outcome of the last route generator call
    tracker,                \* "none" until GPSTracker.__init__ has returned
    waypoints,              \* GPSTracker.waypoints
    speed_knots,            \* GPSTracker.speed_knots
    speed_ms,               \* GPSTracker.speed_ms
    current_waypoint_index, \* GPSTracker.current_waypoint_index
    start_time,             \* GPSTracker.start_time
    total_distance,         \* GPSTracker.total_distance
    current_position,       \* GPSTracker.current_position
    now,                    \* time.time()
    last_call,              \* the latest call of this second, with its outcome
    environment,            \* NMEASimulator's wind, water, depth and engine fields
    messages,               \* the list a caller of generate_messages holds
    updates,                \* _update_environmental_data calls of this second
    server,                 \* how far start_server has got
    running,                \* NMEATCPServer.running
    clients,                \* NMEATCPServer.clients
    closed,                 \* the writers whose close() has been called
    pc,                     \* where each handle_client coroutine is waiting
    wake,                   \* when each coroutine's asyncio.sleep(1.0) ends
    written,                \* how many batches each writer was given
    nmea                    \* what to_nmea_lat and to_nmea_lon returned last

tracker_vars == << tracker, waypoints, speed_knots, speed_ms,
                   current_waypoint_index, start_time, total_distance,
                   current_position >>
sim_vars == << environment, messages, updates >>
server_vars == << server, running, clients, closed, pc, wake, written >>
vars == << route, tracker_vars, now, last_call, sim_vars, server_vars, nmea >>

\* No coordinate has been rendered on its own.
NoNmea == [position |-> NoPosition, lat |-> << <<>>, <<>> >>, lon |-> << <<>>, <<>> >>]

\* What a call returned: op names the call, kind how it ended ("ok", an
\* exception name, or for a position query "segment" / "end").
Call(op, kind, position, heading, complete) ==
    [op |-> op, kind |-> kind, position |-> position, heading |-> heading,
     complete |-> complete]
NoCall == Call("none", "ok", NoPosition, -1, "unset")

NoRoute == Raised("no route")

\* The connections a run may see.
MaxClients == 2
Writers == 1..MaxClients

\* NMEASimulator.__init__: the environmental fields and no batch yet.
InitSimulator ==
    /\ environment = InitialEnvironment
    /\ messages = <<>>
    /\ updates = 0

\* NMEATCPServer.__init__: no client, not running.
InitServer ==
    /\ server = "constructed"
    /\ running = FALSE
    /\ clients = {}
    /\ closed = {}
    /\ pc = [w \in Writers |-> "none"]
    /\ wake = [w \in Writers |-> 0]
    /\ written = [w \in Writers |-> 0]

InitTracker ==
    /\ route = NoRoute
    /\ tracker = "none"
    /\ waypoints = <<>>
    /\ speed_knots = 0
    /\ speed_ms = 0
    /\ current_waypoint_index = 0
    /\ start_time = 0
    /\ total_distance = 0
    /\ current_position = NoPosition
    /\ now = 0
    /\ last_call = NoCall
    /\ InitSimulator
    /\ InitServer
    /\ nmea = NoNmea

\* ---------------------------------------------------------- route actions

\* A route generator is called once, before the tracker is built
\* (create_simulator_from_config).
CanMakeRoute == tracker = "none" /\ route = NoRoute

MakeLineRoute ==
    /\ CanMakeRoute
    /\ \E s \in WaypointPool, e \in WaypointPool, n \in 0..MaxLinePoints :
          route' = create_line_route(s.lat, s.lon, e.lat, e.lon, n)
    /\ last_call' = Call("create_line_route", route'.raised, NoPosition, -1, "unset")
    /\ UNCHANGED << tracker_vars, now, sim_vars, server_vars >>
    /\ UNCHANGED nmea

MakeCircularRoute ==
    /\ CanMakeRoute
    /\ \E c \in WaypointPool, r \in RouteSizes, n \in CirclePointCounts :
          route' = create_circular_route(c.lat, c.lon, r, n)
    /\ last_call' = Call("create_circular_route", route'.raised, NoPosition, -1, "unset")
    /\ UNCHANGED << tracker_vars, now, sim_vars, server_vars >>
    /\ UNCHANGED nmea

MakeRectangleRoute ==
    /\ CanMakeRoute
    /\ \E c \in WaypointPool, w \in RouteSizes, h \in RouteSizes :
          route' = create_rectangle_route(c.lat, c.lon, w, h)
    /\ last_call' = Call("create_rectangle_route", route'.raised, NoPosition, -1, "unset")
    /\ UNCHANGED << tracker_vars, now, sim_vars, server_vars >>
    /\ UNCHANGED nmea

UseWaypointList ==
    /\ CanMakeRoute
    /\ \E l \in WaypointLists : route' = Returned(l)
    /\ last_call' = Call("waypoint_list", "none", NoPosition, -1, "unset")
    /\ UNCHANGED << tracker_vars, now, sim_vars, server_vars >>
    /\ UNCHANGED nmea

\* -------------------------------------------------------- tracker actions

\* GPSTracker.__init__'s check of its argument.
TooFewWaypointsNoneOnly(wps) == Len(wps) < 1

TooFewWaypoints(wps) == Len(wps) < 2

\* GPSTracker.__init__(route, knots): raises before any field is assigned
\* when the list is too short.
Construct ==
    /\ tracker = "none"
    /\ route.raised = "none"
    /\ \E knots \in 0..MaxKnots :
          IF TooFewWaypoints(route.value)
          THEN /\ last_call' = Call("__init__", "ValueError", NoPosition, -1, "unset")
               /\ UNCHANGED << tracker_vars >>
          ELSE /\ tracker' = "ok"
               /\ waypoints' = route.value
               /\ speed_knots' = knots
               /\ speed_ms' = knots * MsPerKnot
               /\ current_waypoint_index' = 0
               /\ start_time' = now
               /\ total_distance' = calculate_total_distance(route.value)
               /\ current_position' = Position(route.value[1].lat, route.value[1].lon)
               /\ last_call' = Call("__init__", "ok", NoPosition, -1, "unset")
    /\ UNCHANGED << route, now, sim_vars, server_vars >>
    /\ UNCHANGED nmea

\* One second passes; the value the latest call returned belongs to the
\* second it was made in.
Tick ==
    /\ now < MaxTime
    /\ now' = now + 1
    /\ last_call' = NoCall
    /\ UNCHANGED << route, tracker_vars, sim_vars, server_vars >>
    /\ UNCHANGED nmea

\* get_current_position that also stores what it returns in
\* self.current_position.
GetCurrentPositionStoresPosition ==
    /\ tracker = "ok"
    /\ LET r == PositionAtDistance(waypoints, total_distance,
                                   (now - start_time) * speed_ms)
       IN  /\ last_call' = Call("get_current_position", r.kind, r.position, -1, "unset")
           /\ current_waypoint_index' =
                 IF r.kind \in {"segment", "end"} THEN r.index
                 ELSE current_waypoint_index
           /\ current_position' =
                 IF r.kind \in {"segment", "end"} THEN r.position
                 ELSE current_position
    /\ UNCHANGED << route, tracker, waypoints, speed_knots, speed_ms, start_time,
                    total_distance, now, sim_vars, server_vars >>
    /\ UNCHANGED nmea

\* GPSTracker.get_current_position.
GetCurrentPosition ==
    /\ tracker = "ok"
    /\ LET r == PositionAtDistance(waypoints, total_distance,
                                   (now - start_time) * speed_ms)
       IN  /\ last_call' = Call("get_current_position", r.kind, r.position, -1, "unset")
           /\ current_waypoint_index' =
                 IF r.kind \in {"segment", "end"} THEN r.index
                 ELSE current_waypoint_index
    /\ UNCHANGED << route, tracker, waypoints, speed_knots, speed_ms, start_time,
                    total_distance, current_position, now, sim_vars, server_vars >>
    /\ UNCHANGED nmea

\* GPSTracker.get_current_heading.
GetCurrentHeading ==
    /\ tracker = "ok"
    /\ last_call' = Call("get_current_heading", "ok", NoPosition,
                         HeadingAtIndex(waypoints, current_waypoint_index), "unset")
    /\ UNCHANGED << route, tracker_vars, now, sim_vars, server_vars >>
    /\ UNCHANGED nmea

\* GPSTracker.get_current_speed.
GetCurrentSpeed ==
    /\ tracker = "ok"
    /\ last_call' = Call("get_current_speed", "ok", NoPosition, speed_knots, "unset")
    /\ UNCHANGED << route, tracker_vars, now, sim_vars, server_vars >>
    /\ UNCHANGED nmea

\* GPSTracker.is_route_complete.
IsRouteComplete ==
    /\ tracker = "ok"
    /\ LET r == RouteComplete(now - start_time, total_distance, speed_ms)
       IN  last_call' = Call("is_route_complete",
                             IF r = "ZeroDivisionError" THEN r ELSE "ok",
                             NoPosition, -1,
                             IF r = "ZeroDivisionError" THEN "unset" ELSE r)
    /\ UNCHANGED << route, tracker_vars, now, sim_vars, server_vars >>
    /\ UNCHANGED nmea

\* reset_route without its first statement: the start time is kept.
ResetRouteKeepsStart ==
    /\ tracker = "ok"
    /\ current_waypoint_index' = 0
    /\ current_position' = Position(waypoints[1].lat, waypoints[1].lon)
    /\ last_call' = Call("reset_route", "ok", NoPosition, -1, "unset")
    /\ UNCHANGED << route, tracker, waypoints, speed_knots, speed_ms, start_time,
                    total_distance, now, sim_vars, server_vars >>
    /\ UNCHANGED nmea

\* GPSTracker.reset_route.
ResetRoute ==
    /\ tracker = "ok"
    /\ start_time' = now
    /\ current_waypoint_index' = 0
    /\ current_position' = Position(waypoints[1].lat, waypoints[1].lon)
    /\ last_call' = Call("reset_route", "ok", NoPosition, -1, "unset")
    /\ UNCHANGED << route, tracker, waypoints, speed_knots, speed_ms,
                    total_distance, now, sim_vars, server_vars >>
    /\ UNCHANGED nmea

NextTracker ==
    \/ MakeLineRoute
    \/ MakeCircularRoute
    \/ MakeRectangleRoute
    \/ UseWaypointList
    \/ Construct
    \/ Tick
    \/ GetCurrentPosition
    \/ GetCurrentHeading
    \/ GetCurrentSpeed
    \/ IsRouteComplete
    \/ ResetRoute

SpecTracker == InitTracker /\ [][NextTracker]_vars

\* ----------------------------------------------------------- tracker claims

Elapsed == now - start_time
DistanceTraveled == Elapsed * speed_ms
FirstWaypoint == Position(waypoints[1].lat, waypoints[1].lon)
FinalWaypoint == Position(waypoints[Len(waypoints)].lat, waypoints[Len(waypoints)].lon)
PositionReturned ==
    /\ tracker = "ok"
    /\ last_call.op = "get_current_position"
    /\ last_call.kind \in {"segment", "end"}

\* C2: for a tracker built from a 2-waypoint route, the position returned at
\* every elapsed time >= total_distance / speed_ms is the final waypoint (the
\* tracker halts there and does not wrap back to the first waypoint).
C2_OpenRouteHaltsAtFinalWaypoint ==
    (/\ PositionReturned
     /\ Len(waypoints) = 2
     /\ speed_ms > 0
     /\ DistanceTraveled >= total_distance)
    => PosEq(last_call.position, FinalWaypoint)

\* C3: for positive speed, is_route_complete returns true exactly when
\* elapsed >= total_distance / speed_ms, and while time advances without a
\* reset its value, once true, never reverts to false.
CeilDiv(a, b) == (a + b - 1) \div b
RouteCompleteNow == RouteComplete(Elapsed, total_distance, speed_ms)
C3_CompleteExactlyFromRouteDuration ==
    /\ []((/\ tracker = "ok"
           /\ speed_ms > 0
           /\ last_call.op = "is_route_complete")
          => /\ last_call.kind = "ok"
             /\ (last_call.complete = "true")
                  <=> (Elapsed >= CeilDiv(total_distance, speed_ms))
             /\ (last_call.complete = "false")
                  <=> (Elapsed < CeilDiv(total_distance, speed_ms)))
    /\ [][(/\ tracker = "ok"
           /\ speed_ms > 0
           /\ start_time' = start_time
           /\ RouteCompleteNow = "true")
          => RouteCompleteNow' = "true"]_vars

\* C3 witness: is_route_complete has returned true at the very instant
\* elapsed = total_distance / speed_ms, on a route of positive length.
C3_Witness ==
    /\ tracker = "ok"
    /\ speed_ms > 0
    /\ total_distance > 0
    /\ last_call.op = "is_route_complete"
    /\ last_call.complete = "true"
    /\ Elapsed * speed_ms = total_distance

\* C4: on a route of 3 or more waypoints and positive total length, the
\* position returned after exactly one lap is the first waypoint, and the
\* position at distance d + k * total_distance is the position at distance d
\* for every whole number of laps k.
C4_LoopWrapRoundTrip ==
    (/\ PositionReturned
     /\ Len(waypoints) >= 3
     /\ total_distance > 0)
    => /\ DistanceTraveled = total_distance
          => /\ PosEq(last_call.position, FirstWaypoint)
             /\ last_call.position =
                  PositionAtDistance(waypoints, total_distance, 0).position
       /\ \A k \in 0..MaxLaps :
             LET lap == DistanceTraveled % total_distance
                 r == PositionAtDistance(waypoints, total_distance,
                                         lap + k * total_distance)
             IN  /\ r.kind = last_call.kind
                 /\ r.position = last_call.position

\* C4 witness: a position query made after exactly one lap of a loop whose
\* last waypoint is not its first.
C4_Witness ==
    /\ PositionReturned
    /\ Len(waypoints) >= 3
    /\ total_distance > 0
    /\ waypoints[Len(waypoints)] # waypoints[1]
    /\ DistanceTraveled = total_distance

\* C5: a heading query that follows a position query which located the
\* vessel in segment i returns the initial bearing from that segment's start
\* to its end, the closing segment (last waypoint to first) included.
C5_HeadingOfOccupiedSegment ==
    [][(/\ PositionReturned
        /\ last_call.kind = "segment"
        /\ last_call'.op = "get_current_heading")
       => last_call'.heading =
            BearingTo(SegmentStart(waypoints, current_waypoint_index),
                      SegmentEnd(waypoints, current_waypoint_index))]_vars

\* C6: total_distance is the sum of the legs between consecutive waypoints,
\* plus the closing leg exactly when there are more than 2 waypoints; a route
\* that repeats its first waypoint as its last gets nothing from the closing
\* leg (the total is the perimeter), and for a loop the total is the sum of
\* the segments get_current_position walks.
RECURSIVE WalkedLength(_, _)
WalkedLength(wps, i) ==
    IF i >= Len(wps) THEN 0
    ELSE DistanceTo(SegmentStart(wps, i), SegmentEnd(wps, i))
         + WalkedLength(wps, i + 1)
RECURSIVE LegSum(_, _)
LegSum(wps, n) ==
    IF n = 0 THEN 0 ELSE LegSum(wps, n - 1) + DistanceTo(wps[n], wps[n + 1])
ClosingLeg(wps) == DistanceTo(wps[Len(wps)], wps[1])
C6_TotalDistance ==
    tracker = "ok"
    => /\ Len(waypoints) = 2 => total_distance = DistanceTo(waypoints[1], waypoints[2])
       /\ Len(waypoints) > 2
          => /\ total_distance
                  = LegSum(waypoints, Len(waypoints) - 1) + ClosingLeg(waypoints)
             /\ total_distance = WalkedLength(waypoints, 0)
       /\ (Len(waypoints) > 2 /\ waypoints[Len(waypoints)] = waypoints[1])
          => /\ ClosingLeg(waypoints) = 0
             /\ total_distance = LegSum(waypoints, Len(waypoints) - 1)

\* C6 witness: a tracker on a rectangle route (5 waypoints, the first
\* repeated as the last) whose total is the perimeter of a 4 by 4 rectangle.
C6_Witness ==
    /\ tracker = "ok"
    /\ Len(waypoints) = 5
    /\ waypoints[5] = waypoints[1]
    /\ total_distance = 16

\* C9: create_line_route with num_points < 2 and create_circular_route with
\* num_points < 3 fail with InvalidRouteConfig and return no route (a
\* generator returns exactly num_points waypoints when it returns).
C9_GeneratorsRejectTooFewPoints ==
    /\ last_call.op = "create_line_route"
       => \/ route.raised = "InvalidRouteConfig"
          \/ route.raised = "none" /\ Len(route.value) >= 2
    /\ last_call.op = "create_circular_route"
       => \/ route.raised = "InvalidRouteConfig"
          \/ route.raised = "none" /\ Len(route.value) >= 3

\* C10: GPSTracker.__init__ fails on a list of fewer than 2 waypoints before
\* it assigns any field, so no tracker has a route of fewer than 2 waypoints.
C10_NoTrackerBelowTwoWaypoints ==
    /\ tracker = "ok" => Len(waypoints) >= 2
    /\ (last_call.op = "__init__" /\ Len(route.value) < 2)
       => /\ last_call.kind = "ValueError"
          /\ tracker = "none"
          /\ waypoints = <<>>
          /\ total_distance = 0
          /\ current_position = NoPosition

\* C10 witness: the constructor has just raised on a one-waypoint list.
C10_Witness ==
    /\ last_call.op = "__init__"
    /\ last_call.kind = "ValueError"
    /\ Len(route.value) = 1

\* -------------------------------------------------------- simulator actions

\* How long a simulator is followed, in seconds.
MaxSimTime == 2

\* The trackers a simulator is built on: a three-leg route south of the
\* equator and east of Greenwich, entered at 01:02:03; a single leg north and
\* west; a route whose waypoints coincide.
SimStarts ==
    { [waypoints |-> << Waypoint(-14626958, 65324448), Waypoint(-14626958, 65324452),
                        Waypoint(-14626954, 65324452) >>,
       knots |-> 1, clock |-> 3723],
      [waypoints |-> << Waypoint(4, -4), Waypoint(0, -4) >>, knots |-> 2, clock |-> 0],
      [waypoints |-> << Waypoint(0, 4), Waypoint(0, 4) >>, knots |-> 1, clock |-> 0] }

\* GPSTracker(s.waypoints, s.knots) built at time s.clock.
TrackerBuilt(s) ==
    /\ route = Returned(s.waypoints)
    /\ tracker = "ok"
    /\ waypoints = s.waypoints
    /\ speed_knots = s.knots
    /\ speed_ms = s.knots * MsPerKnot
    /\ current_waypoint_index = 0
    /\ start_time = s.clock
    /\ total_distance = calculate_total_distance(s.waypoints)
    /\ current_position = Position(s.waypoints[1].lat, s.waypoints[1].lon)
    /\ now = s.clock
    /\ last_call = NoCall

\* NMEASimulator(gps_tracker).
InitSim ==
    /\ \E s \in SimStarts : TrackerBuilt(s)
    /\ InitSimulator
    /\ InitServer
    /\ nmea = NoNmea

\* What get_current_position gives the generate_messages call of this moment.
PositionNow == PositionAtDistance(waypoints, total_distance, (now - start_time) * speed_ms)

\* generate_messages asking for the heading before the position: the heading
\* comes from the segment index an earlier call has cached.
GenerateMessagesCallHeadingFirst(rnd) ==
    LET r == PositionNow
    IN  IF r.kind = "ZeroDivisionError"
        THEN /\ last_call' = Call("generate_messages", r.kind, NoPosition, -1, "unset")
             /\ UNCHANGED << current_waypoint_index, environment, updates >>
        ELSE /\ current_waypoint_index' = r.index
             /\ environment' = update_environmental_data(environment, rnd)
             /\ updates' = updates + 1
             /\ last_call' = Call("generate_messages", "ok", r.position,
                                  HeadingAtIndex(waypoints, current_waypoint_index),
                                  "unset")

\* NMEASimulator.generate_messages with the random source rnd, but for the
\* list it returns: the tracker is asked for position (which caches the
\* segment index), heading and speed, and the environmental data take a
\* step.  An exception of get_current_position ends the call before any of
\* that.
GenerateMessagesCall(rnd) ==
    LET r == PositionNow
    IN  IF r.kind = "ZeroDivisionError"
        THEN /\ last_call' = Call("generate_messages", r.kind, NoPosition, -1, "unset")
             /\ UNCHANGED << current_waypoint_index, environment, updates >>
        ELSE /\ current_waypoint_index' = r.index
             /\ environment' = update_environmental_data(environment, rnd)
             /\ updates' = updates + 1
             /\ last_call' = Call("generate_messages", "ok", r.position,
                                  HeadingAtIndex(waypoints, r.index), "unset")

\* The list that call returns.
MessagesReturned(rnd) ==
    LET r == PositionNow
    IN  generate_messages(r.position, Whole(HeadingAtIndex(waypoints, r.index)),
                          Whole(speed_knots),
                          update_environmental_data(environment, rnd), now, rnd)

\* One call of generate_messages in a second, the cadence of one consumer;
\* the caller keeps the list.
GenerateMessages ==
    /\ tracker = "ok"
    /\ updates = 0
    /\ \E rnd \in RandomSources :
          /\ GenerateMessagesCall(rnd)
          /\ messages' = IF PositionNow.kind = "ZeroDivisionError" THEN messages
                         ELSE MessagesReturned(rnd)
    /\ UNCHANGED << route, tracker, waypoints, speed_knots, speed_ms, start_time,
                    total_distance, current_position, now, server_vars >>
    /\ UNCHANGED nmea

\* One second passes.
SimTick ==
    /\ now - start_time < MaxSimTime
    /\ now' = now + 1
    /\ last_call' = NoCall
    /\ messages' = <<>>
    /\ updates' = 0
    /\ UNCHANGED << route, tracker_vars, environment, server_vars >>
    /\ UNCHANGED nmea

NextSim ==
    \/ GenerateMessages
    \/ SimTick

SpecSim == InitSim /\ [][NextSim]_vars

\* --------------------------------------------------------- simulator claims

\* A generate_messages call of this second has returned its list.
BatchReturned == last_call.op = "generate_messages" /\ last_call.kind = "ok"

\* The identifier a reader takes from a sentence: the five letters after the
\* leading character, and for an engine sentence its engine field as well.
Identifier(s) ==
    IF SubSeq(s, 2, 6) = <<"I", "I", "R", "P", "M">> THEN SubSeq(s, 2, 8)
    ELSE SubSeq(s, 2, 6)

BatchOrder ==
    << <<"G", "P", "R", "M", "C">>,
       <<"I", "I", "V", "H", "W">>,
       <<"G", "P", "V", "T", "G">>,
       <<"I", "I", "H", "D", "T">>,
       <<"G", "P", "G", "L", "L">>,
       <<"G", "P", "G", "G", "A">>,
       <<"G", "P", "G", "S", "A">>,
       <<"G", "P", "Z", "D", "A">>,
       <<"I", "I", "V", "B", "W">>,
       <<"W", "I", "M", "W", "D">>,
       <<"W", "I", "M", "W", "V">>,
       <<"I", "I", "M", "T", "W">>,
       <<"S", "D", "D", "P", "T">>,
       <<"S", "D", "D", "B", "T">>,
       <<"I", "I", "R", "P", "M", ",", "1">>,
       <<"I", "I", "R", "P", "M", ",", "2">>,
       <<"I", "I", "A", "P", "B">>,
       <<"G", "P", "R", "M", "B">>,
       <<"A", "I", "V", "D", "O">>,
       <<"A", "I", "V", "D", "M">>,
       <<"A", "I", "V", "D", "O">>,
       <<"A", "I", "V", "D", "O">>,
       <<"A", "I", "V", "D", "M">>,
       <<"A", "I", "V", "D", "M">> >>

\* C7: every list generate_messages returns has 24 sentences whose
\* identifiers are, in this order, GPRMC, IIVHW, GPVTG, IIHDT, GPGLL, GPGGA,
\* GPGSA, GPZDA, IIVBW, WIMWD, WIMWV, IIMTW, SDDPT, SDDBT, IIRPM of engine 1,
\* IIRPM of engine 2, IIAPB, GPRMB, AIVDO, AIVDM, AIVDO, AIVDO, AIVDM, AIVDM,
\* whatever the tracker's position and the environmental data are.
C7_FixedBatchOrder ==
    BatchReturned =>
        /\ Len(messages) = 24
        /\ \A i \in 1..Len(messages) : Identifier(messages[i]) = BatchOrder[i]

\* A batch rendered away from the first waypoint, after the environmental
\* data have left their seed values.
C7_Witness ==
    /\ BatchReturned
    /\ Len(messages) = 24
    /\ ~PosEq(last_call.position, FirstWaypoint)
    /\ environment.wind_direction # InitialEnvironment.wind_direction
    /\ environment.depth # InitialEnvironment.depth

\* The reader's side of the checksum: the value of a hexadecimal digit, and
\* the XOR of the character codes of a text taken bit by bit (bit j of the
\* XOR is the parity of the number of codes with bit j set).
IsUpperHex(c) == \E i \in 1..16 : HexDigitsUpper[i] = c
HexValue(c) == (CHOOSE i \in 1..16 : HexDigitsUpper[i] = c) - 1
CodeParity(text, weight) ==
    Cardinality({i \in 1..Len(text) : (ord(text[i]) \div weight) % 2 = 1}) % 2
XorOfCodes(text) ==
    CodeParity(text, 1) + 2 * CodeParity(text, 2) + 4 * CodeParity(text, 4)
    + 8 * CodeParity(text, 8) + 16 * CodeParity(text, 16)
    + 32 * CodeParity(text, 32) + 64 * CodeParity(text, 64)
ChecksumConsistent(s) ==
    /\ Len(s) >= 4
    /\ s[1] \in {"$", "!"}
    /\ s[Len(s) - 2] = "*"
    /\ IsUpperHex(s[Len(s) - 1])
    /\ IsUpperHex(s[Len(s)])
    /\ 16 * HexValue(s[Len(s) - 1]) + HexValue(s[Len(s)])
          = XorOfCodes(SubSeq(s, 2, Len(s) - 3))

\* C8: every rendered sentence, of every type, ends with "*" and exactly two
\* upper-case hexadecimal digits (zero-padded) whose value is the XOR of the
\* codes of the characters strictly between the leading "$" or "!" and that
\* trailing "*".
C8_ChecksumSelfConsistent ==
    BatchReturned => \A i \in 1..Len(messages) : ChecksumConsistent(messages[i])

\* A batch with a checksum below 16 (the padded case) and one with a letter
\* digit (the upper-case case).
C8_Witness ==
    /\ BatchReturned
    /\ \E i \in 1..Len(messages) : messages[i][Len(messages[i]) - 1] = "0"
    /\ \E i \in 1..Len(messages) :
          messages[i][Len(messages[i])] \in {"A", "B", "C", "D", "E", "F"}

\* ----------------------------------------------------------- server actions

\* How long a server is followed, in seconds.
MaxServerTime == 1

\* The trackers a server is built on: those of the simulator at one knot, and
\* a route of legs short enough for the segment to change within a second.
ServerStarts ==
    {s \in SimStarts : s.knots = 1}
    \union { [waypoints |-> << Waypoint(0, 0), Waypoint(0, 2), Waypoint(2, 2) >>,
               knots |-> 1, clock |-> 0] }

\* The random sources of the batches a server generates: what the handlers
\* do does not depend on the draws, and the server is followed with the
\* sources whose draws are all alike.
ServerSources == {rnd \in RandomSources : \A k \in DOMAIN rnd : rnd[k] = rnd[1]}

\* NMEATCPServer(gps_tracker = tracker).
InitServing ==
    /\ \E s \in ServerStarts : TrackerBuilt(s)
    /\ InitSimulator
    /\ InitServer
    /\ nmea = NoNmea

\* start_server: the listening socket is opened and running is set before
\* any handle_client coroutine gets to run.
StartServer ==
    /\ server = "constructed"
    /\ server' = "serving"
    /\ running' = TRUE
    /\ UNCHANGED << route, tracker_vars, now, last_call, sim_vars,
                    clients, closed, pc, wake, written >>
    /\ UNCHANGED nmea

\* start_server's except clause: KeyboardInterrupt ends serve_forever.
Interrupt ==
    /\ server = "serving"
    /\ server' = "stopped"
    /\ running' = FALSE
    /\ UNCHANGED << route, tracker_vars, now, last_call, sim_vars,
                    clients, closed, pc, wake, written >>
    /\ UNCHANGED nmea

\* stop_server.
StopServer ==
    /\ running' = FALSE
    /\ closed' = closed \union clients
    /\ UNCHANGED << route, tracker_vars, now, last_call, sim_vars,
                    server, clients, pc, wake, written >>
    /\ UNCHANGED nmea

\* The finally clause without its discard: the writer is closed and stays
\* in the set.
FinallyWithoutDiscard(w, cl) ==
    /\ clients' = cl
    /\ closed' = closed \union {w}
    /\ pc' = [pc EXCEPT ![w] = "done"]

\* handle_client's finally clause, for the client set cl.
Finally(w, cl) ==
    /\ clients' = cl \ {w}
    /\ closed' = closed \union {w}
    /\ pc' = [pc EXCEPT ![w] = "done"]

\* The loop of handle_client with "while True": running is not tested.
IterateWhileTrue(w, cl, rnd) ==
    /\ GenerateMessagesCall(rnd)
    /\ IF PositionNow.kind = "ZeroDivisionError"
       THEN /\ Finally(w, cl)
            /\ UNCHANGED << written, wake >>
       ELSE /\ written' = [written EXCEPT ![w] = @ + 1]
            /\ pc' = [pc EXCEPT ![w] = "drain"]
            /\ clients' = cl
            /\ UNCHANGED << closed, wake >>
    /\ UNCHANGED messages

\* handle_client from the test of its loop to the next await: a batch is
\* generated and every sentence of it written to this writer (the list is
\* the coroutine's own and is gone with the pass), or the loop is left
\* (running is false, or generate_messages raised) through the finally
\* clause.
Iterate(w, cl, rnd) ==
    IF running
    THEN /\ GenerateMessagesCall(rnd)
         /\ IF PositionNow.kind = "ZeroDivisionError"
            THEN /\ Finally(w, cl)
                 /\ UNCHANGED << written, wake >>
            ELSE /\ written' = [written EXCEPT ![w] = @ + 1]
                 /\ pc' = [pc EXCEPT ![w] = "drain"]
                 /\ clients' = cl
                 /\ UNCHANGED << closed, wake >>
         /\ UNCHANGED messages
    ELSE /\ Finally(w, cl)
         /\ UNCHANGED << current_waypoint_index, sim_vars, last_call, written, wake >>

\* A connection is accepted: handle_client runs up to its first await.
Connect(w) ==
    /\ server = "serving"
    /\ pc[w] = "none"
    /\ \E rnd \in ServerSources : Iterate(w, clients \union {w}, rnd)
    /\ UNCHANGED << route, tracker, waypoints, speed_knots, speed_ms, start_time,
                    total_distance, current_position, now, server, running >>
    /\ UNCHANGED nmea

\* await writer.drain() returns and asyncio.sleep(1.0) begins.
Drained(w) ==
    /\ pc[w] = "drain"
    /\ pc' = [pc EXCEPT ![w] = "sleep"]
    /\ wake' = [wake EXCEPT ![w] = now + 1]
    /\ UNCHANGED << route, tracker_vars, now, last_call, sim_vars,
                    server, running, clients, closed, written >>
    /\ UNCHANGED nmea

\* await writer.drain() raises ConnectionResetError: the peer has gone.
DrainFails(w) ==
    /\ pc[w] = "drain"
    /\ Finally(w, clients)
    /\ UNCHANGED << route, tracker_vars, now, last_call, sim_vars,
                    server, running, wake, written >>
    /\ UNCHANGED nmea

\* asyncio.sleep(1.0) is over: the loop is tested again.
WakeUp(w) ==
    /\ pc[w] = "sleep"
    /\ now >= wake[w]
    /\ \E rnd \in ServerSources : Iterate(w, clients, rnd)
    /\ UNCHANGED << route, tracker, waypoints, speed_knots, speed_ms, start_time,
                    total_distance, current_position, now, server, running >>
    /\ UNCHANGED nmea

\* One second passes.
ServerTick ==
    /\ now - start_time < MaxServerTime
    /\ now' = now + 1
    /\ last_call' = NoCall
    /\ updates' = 0
    /\ UNCHANGED << route, tracker_vars, environment, messages, server_vars >>
    /\ UNCHANGED nmea

NextServer ==
    \/ StartServer
    \/ Interrupt
    \/ StopServer
    \/ ServerTick
    \/ \E w \in Writers : Connect(w)
    \/ \E w \in Writers : Drained(w)
    \/ \E w \in Writers : DrainFails(w)
    \/ \E w \in Writers : WakeUp(w)

SpecServer == InitServing /\ [][NextServer]_vars

\* ------------------------------------------------------------ server claims

\* C1: the environmental data take one random-walk step in a one-second
\* interval however many clients are connected: never more than one call of
\* _update_environmental_data falls in the same second.
C1_OneEnvironmentStepPerSecond == updates <= 1

\* ------------------------------------------------------ more tracker claims

\* C11: no query of a tracker whose construction succeeded raises: at every
\* elapsed time >= 0, also for a route of total length 0 and for speed 0,
\* get_current_position, get_current_heading and is_route_complete return a
\* value.
C11_NoQueryRaises ==
    (/\ tracker = "ok"
     /\ last_call.op \in {"get_current_position", "get_current_heading",
                          "is_route_complete"})
    => last_call.kind \in {"ok", "segment", "end"}

\* ------------------------------------------------------ environmental data

\* The environmental data a simulator may have got to after a number of
\* ticks: each field at its seed value, at its limit and next to it.
EnvironmentStates ==
    [wind_direction : {Rat(2551, 10), Whole(0), Rat(1, 10), Rat(11, 10), Rat(3591, 10)},
     wind_speed : {Rat(278, 10), Whole(0), Rat(3, 10)},
     water_temp : {Rat(67, 10), Whole(0), Rat(1, 10)},
     depth : {Rat(22, 10), Rat(1, 10), Rat(15, 100)},
     engine_rpm : {Whole(612), Whole(0), Whole(2)},
     engine_pitch : {Rat(105, 10), Whole(0), Rat(25, 100)}]

\* A simulator whose environmental data have walked to one of those states;
\* the tracker plays no part in the walk.
InitEnvironment ==
    /\ route = NoRoute
    /\ tracker = "none"
    /\ waypoints = <<>>
    /\ speed_knots = 0
    /\ speed_ms = 0
    /\ current_waypoint_index = 0
    /\ start_time = 0
    /\ total_distance = 0
    /\ current_position = NoPosition
    /\ now = 0
    /\ last_call = NoCall
    /\ environment \in EnvironmentStates
    /\ messages = <<>>
    /\ updates = 0
    /\ InitServer
    /\ nmea = NoNmea

\* NMEASimulator._update_environmental_data, the tick's step of the walk.
UpdateEnvironmentalData ==
    /\ updates < MaxSimTime
    /\ \E rnd \in RandomSources :
          environment' = update_environmental_data(environment, rnd)
    /\ updates' = updates + 1
    /\ last_call' = Call("_update_environmental_data", "ok", NoPosition, -1, "unset")
    /\ UNCHANGED << route, tracker_vars, now, messages, server_vars >>
    /\ UNCHANGED nmea

NextEnvironment == UpdateEnvironmentalData

SpecEnvironment == InitEnvironment /\ [][NextEnvironment]_vars

\* Comparisons of the claims on fractions.
RLeq(a, b) == ~RLess(b, a)
RAbs(a) == [n |-> Abs(a.n), d |-> a.d]
ChangeWithin(old, new, bound) == RLeq(RAbs(RSub(new, old)), bound)
TurnWithin(old, new, bound) ==
    LET d == RAbs(RSub(new, old))
    IN  RLeq(d, bound) \/ RLeq(RSub(Whole(360), d), bound)

EnvironmentInRange ==
    /\ RLeq(Whole(0), environment.wind_direction)
    /\ RLess(environment.wind_direction, Whole(360))
    /\ RLeq(Whole(0), environment.wind_speed)
    /\ RLeq(Whole(0), environment.water_temp)
    /\ RLeq(Rat(1, 10), environment.depth)
    /\ RLeq(Whole(0), environment.engine_rpm)
    /\ RLeq(Whole(0), environment.engine_pitch)

EnvironmentStepBounded ==
    /\ TurnWithin(environment.wind_direction, environment'.wind_direction, Whole(2))
    /\ ChangeWithin(environment.wind_speed, environment'.wind_speed, Whole(1))
    /\ ChangeWithin(environment.water_temp, environment'.water_temp, Rat(2, 10))
    /\ ChangeWithin(environment.depth, environment'.depth, Rat(1, 10))
    /\ ChangeWithin(environment.engine_rpm, environment'.engine_rpm, Whole(5))
    /\ ChangeWithin(environment.engine_pitch, environment'.engine_pitch, Rat(5, 10))

\* C12: after any number of ticks 0 <= wind_direction < 360, wind_speed >= 0,
\* water_temp >= 0, depth >= 0.1, engine_rpm >= 0 and engine_pitch >= 0, and
\* a tick changes each field by at most its perturbation bound: 2 (modulo
\* 360), 1, 0.2, 0.1, 5 and 0.5.
C12_EnvironmentBoundedWalk ==
    /\ []EnvironmentInRange
    /\ [][EnvironmentStepBounded]_vars

\* A tick in which the direction wrapped below 0 and the wind speed and the
\* depth were held at their limits.
C12_Witness ==
    /\ updates >= 1
    /\ RLess(Whole(358), environment.wind_direction)
    /\ environment.wind_speed = Whole(0)
    /\ environment.depth = Rat(1, 10)

\* A step in which reset_route has run.
ResetStep == last_call'.op = "reset_route" /\ last_call.op # "reset_route"

\* C13: reset_route at time now sets start_time to now and the segment index
\* to 0, leaves the route, the speed and the total length as they were and
\* puts the position at the first waypoint; right after it, whatever time had
\* elapsed before, a position query gives the first waypoint and the route of
\* positive length is not complete, and is_route_complete becomes true
\* exactly when a full route duration has elapsed since the reset.
C13_ResetRestartsRoute ==
    /\ [][ResetStep =>
            /\ start_time' = now
            /\ current_waypoint_index' = 0
            /\ current_position' = FirstWaypoint
            /\ UNCHANGED << waypoints, speed_knots, speed_ms, total_distance >>
            /\ (speed_ms > 0 /\ total_distance > 0)
               => RouteComplete(now' - start_time', total_distance', speed_ms') = "false"]_vars
    /\ []((PositionReturned /\ Elapsed = 0)
          => PosEq(last_call.position, FirstWaypoint))
    /\ []((tracker = "ok" /\ speed_ms > 0 /\ last_call.op = "is_route_complete")
          => (last_call.complete = "true"
              <=> Elapsed >= CeilDiv(total_distance, speed_ms)))

\* A reset of a moving tracker on a route of positive length, made when a
\* route duration had passed on the clock.
C13_Witness ==
    /\ last_call.op = "reset_route"
    /\ start_time = now
    /\ speed_ms > 0
    /\ total_distance > 0
    /\ now * speed_ms >= total_distance

\* ------------------------------------------------------------- coordinates

\* The positions rendered: latitudes and longitudes in grid steps over a
\* common denominator (1, 3 or 10), among them -33.8587 and 151.2140, the
\* equator and the prime meridian, the nearest values on either side of
\* them, the poles' and the date line's neighbourhood.
PositionInputs ==
    [lat : {0, -1, 432000 * 45, -(432000 * 89 + 431999), 432000 * 90,
            5 * 432000 + 216000},
     lon : {0, -1, 432000 * 9 + 7200, 432000 * 180, -(432000 * 179 + 431999),
            432000 * 100},
     den : {1}]
    \union
    [lat : {1, -1, 432001, -38880001, 3 * 432000 * 60 + 2, -(3 * 432000 * 7 + 5)},
     lon : {1, -2, 3 * 432000 * 120 + 1, -(3 * 432000 * 99 + 7), 129600011, 100},
     den : {3}]
    \union
    [lat : {-146269584, 146269584, 3, -7, 4320000 * 12 + 1234567,
            -(4320000 * 80 + 9), 4320000 * 89 + 4319999},
     lon : {653244480, -653244480, 9, -11, 4320000 * 179 + 4319999,
            -(4320000 * 5 + 1), 4320000 * 10},
     den : {10}]

\* Position(lat, lon).to_nmea_lat() and .to_nmea_lon().
ToNmea ==
    /\ \E p \in PositionInputs :
          nmea' = [position |-> p, lat |-> to_nmea_lat(p), lon |-> to_nmea_lon(p)]
    /\ UNCHANGED << route, tracker_vars, now, last_call, sim_vars, server_vars >>

NextNmea == ToNmea

SpecNmea == InitTracker /\ [][NextNmea]_vars

\* The reader's side of a coordinate field: the number its digits spell.
IsDigit(c) == \E i \in 1..10 : DecDigits[i] = c
DigitValue(c) == (CHOOSE i \in 1..10 : DecDigits[i] = c) - 1
RECURSIVE ParseDigits(_)
ParseDigits(text) ==
    IF text = <<>> THEN 0
    ELSE 10 * ParseDigits(SubSeq(text, 1, Len(text) - 1)) + DigitValue(text[Len(text)])

\* A field of w degree digits and MM.MMMMMM is read back against the
\* coordinate of steps / den grid steps: the digits are digits, the point is
\* in its place, the degrees are the whole degrees of the absolute value and
\* the minutes are its fractional degrees * 60 to the nearest millionth.
FieldReadsBack(text, w, steps, den) ==
    LET whole == Abs(steps) \div (den * StepsPerDegree)
        part == Abs(steps) % (den * StepsPerDegree)
        minutes == Rat(part, den * (StepsPerDegree \div 60))
        digits == SubSeq(text, 1, w + 2) \o SubSeq(text, w + 4, w + 9)
    IN  /\ Len(text) = w + 9
        /\ text[w + 3] = "."
        /\ \A i \in 1..Len(digits) : IsDigit(digits[i])
        /\ ParseDigits(SubSeq(text, 1, w)) = whole
        /\ RLeq(RAbs(RSub(Rat(ParseDigits(SubSeq(digits, w + 1, w + 8)), 1000000),
                          minutes)),
                Rat(1, 2000000))

\* C14: to_nmea_lat and to_nmea_lon render the absolute coordinate as whole
\* degrees, zero-padded to 2 digits (latitude) or 3 (longitude), followed by
\* the minutes = fractional degrees * 60 as MM.MMMMMM, with "N" / "E" for a
\* value >= 0 and "S" / "W" for a negative one; latitude -33.8587 gives
\* ("3351.522000", "S") and longitude 151.2140 gives ("15112.840000", "E").
C14_NmeaCoordinates ==
    nmea # NoNmea =>
        /\ nmea.lat[2] = (IF nmea.position.lat >= 0 THEN <<"N">> ELSE <<"S">>)
        /\ nmea.lon[2] = (IF nmea.position.lon >= 0 THEN <<"E">> ELSE <<"W">>)
        /\ FieldReadsBack(nmea.lat[1], 2, nmea.position.lat, nmea.position.den)
        /\ FieldReadsBack(nmea.lon[1], 3, nmea.position.lon, nmea.position.den)
        /\ nmea.position.den = 10 /\ nmea.position.lat = -146269584
           => nmea.lat = << <<"3", "3", "5", "1", ".", "5", "2", "2", "0", "0", "0">>, <<"S">> >>
        /\ nmea.position.den = 10 /\ nmea.position.lon = 653244480
           => nmea.lon = << <<"1", "5", "1", "1", "2", ".", "8", "4", "0", "0", "0", "0">>, <<"E">> >>

\* The example position has been rendered.
C14_Witness ==
    /\ nmea.position = [lat |-> -146269584, lon |-> 653244480, den |-> 10]
    /\ nmea.lat[2] = <<"S">>
    /\ nmea.lon[2] = <<"E">>

\* ----------------------------------------------------- tracker frame claims

\* C15: a built tracker's waypoints, speed_knots, speed_ms, start_time,
\* total_distance and current_position change only in a reset_route step;
\* get_current_position, get_current_heading, get_current_speed and
\* is_route_complete leave them alone, and the cached
\* current_waypoint_index is changed by no query but the position query.
C15_QueriesLeaveTrackerAlone ==
    [][(tracker = "ok" /\ last_call'.op # "reset_route")
       => /\ UNCHANGED << waypoints, speed_knots, speed_ms, start_time,
                          total_distance, current_position >>
          /\ (current_waypoint_index' # current_waypoint_index
              => last_call'.op = "get_current_position")]_vars

\* A position query has moved the cached index off the first segment.
C15_Witness ==
    /\ last_call.op = "get_current_position"
    /\ last_call.kind = "segment"
    /\ current_waypoint_index > 0
    /\ ~PosEq(last_call.position, current_position)

\* --------------------------------------------------------------- AIS claims

\* The k-th comma-separated field of a sentence (the first is the
\* identifier with its leading character).
RECURSIVE FieldFrom(_, _, _)
FieldFrom(s, i, k) ==
    IF i > Len(s) THEN <<>>
    ELSE IF s[i] = "," THEN (IF k = 1 THEN <<>> ELSE FieldFrom(s, i + 1, k - 1))
    ELSE IF k = 1 THEN <<s[i]>> \o FieldFrom(s, i + 1, k)
    ELSE FieldFrom(s, i + 1, k)
Field(s, k) == FieldFrom(s, 1, k)
IsAis(s) == SubSeq(s, 1, 4) = <<"!", "A", "I", "V">>
FragmentCount(s) == ParseDigits(Field(s, 2))
FragmentNumber(s) == ParseDigits(Field(s, 3))

\* C16: in every batch each AIS sentence renders a fragment number between 1
\* and its fragment count; the single-fragment payload is rendered with
\* count 1 and number 1 (sentences 19 and 20), and the two sentences that
\* carry the two-fragment payload with count 2 and numbers 1 and 2, in that
\* order (sentences 21, 22 and 23, 24).
C16_AisFragmentsNumbered ==
    BatchReturned =>
        /\ \A i \in 1..Len(messages) :
              IsAis(messages[i])
              => /\ 1 <= FragmentNumber(messages[i])
                 /\ FragmentNumber(messages[i]) <= FragmentCount(messages[i])
        /\ \A i \in {19, 20} :
              FragmentCount(messages[i]) = 1 /\ FragmentNumber(messages[i]) = 1
        /\ \A i \in {21, 23} :
              /\ FragmentCount(messages[i]) = 2 /\ FragmentNumber(messages[i]) = 1
              /\ FragmentCount(messages[i + 1]) = 2 /\ FragmentNumber(messages[i + 1]) = 2

\* ------------------------------------------------------------ server claims

\* C17: once running is false (stop_server has run) it stays false, and no
\* handler generates or writes another batch: the environmental data and
\* the writers' batch counts stay as they are, no call of
\* _update_environmental_data is counted, and a handler that wakes from its
\* sleep leaves its loop; a batch that was written is never taken back.
C17_NoBatchAfterStop ==
    /\ [][\A w \in Writers : written'[w] >= written[w]]_vars
    /\ [][(server # "constructed" /\ ~running)
           => /\ ~running'
              /\ written' = written
              /\ environment' = environment
              /\ updates' \in {updates, 0}
              /\ \A w \in Writers :
                    (pc[w] = "sleep" /\ pc'[w] # "sleep") => pc'[w] = "done"]_vars

\* stop_server has run while a handler slept after its first batch, and
\* that handler has left its loop at its next test without a second batch.
C17_Witness ==
    /\ ~running
    /\ server = "serving"
    /\ \E w \in Writers :
          /\ pc[w] = "done"
          /\ written[w] = 1
          /\ wake[w] > 0
          /\ w \in closed

\* ------------------------------------------------------- the segment search

\* The length of the segment walked in iteration i of the search.
SegmentDistance(i) ==
    DistanceTo(SegmentStart(waypoints, i), SegmentEnd(waypoints, i))

\* C18: on a route of positive total length followed at positive speed, the
\* segment search of get_current_position returns from inside its loop at
\* every elapsed time >= 0, in a segment of positive length: it never divides
\* by a zero segment length (the zero-length segments before the one it
\* returns in are skipped) and never reaches the fall-through return of the
\* last waypoint.
C18_SearchEndsInPositiveSegment ==
    (/\ tracker = "ok"
     /\ last_call.op = "get_current_position"
     /\ speed_ms > 0
     /\ total_distance > 0)
    => /\ last_call.kind = "segment"
       /\ current_waypoint_index \in 0..(Len(waypoints) - 1)
       /\ SegmentDistance(current_waypoint_index) > 0
       /\ PositionAtDistance(waypoints, total_distance, DistanceTraveled).index
             = current_waypoint_index

\* A position returned after the search has passed a segment of length zero,
\* at least one lap into the route.
C18_Witness ==
    /\ tracker = "ok"
    /\ last_call.op = "get_current_position"
    /\ last_call.kind = "segment"
    /\ speed_ms > 0
    /\ total_distance > 0
    /\ DistanceTraveled >= total_distance
    /\ \E j \in 0..(current_waypoint_index - 1) : SegmentDistance(j) = 0

\* ------------------------------------------------- handlers sharing a tracker

\* The handlers between their connect and their finally clause.
Active == {w \in Writers : pc[w] \in {"drain", "sleep"}}

\* C19: whichever way the handlers of concurrent clients interleave on the
\* one tracker, the heading of a batch is the bearing of the segment index
\* that the position query of the same generate_messages call has written:
\* the index the tracker holds after the call is the one of the position the
\* batch carries, and no other handler's query falls between the two.
C19_HeadingOfOwnPositionQuery ==
    (last_call.op = "generate_messages" /\ last_call.kind = "ok")
    => /\ current_waypoint_index = PositionNow.index
       /\ last_call.position = PositionNow.position
       /\ last_call.heading = HeadingAtIndex(waypoints, current_waypoint_index)

\* Two handlers are active, both have written a batch, and the latest batch
\* was generated after the tracker had moved on to its second segment, where
\* the bearing is another one.
C19_Witness ==
    /\ last_call.op = "generate_messages"
    /\ last_call.kind = "ok"
    /\ Cardinality(Active) = 2
    /\ \A w \in Active : written[w] >= 1
    /\ current_waypoint_index = 1
    /\ last_call.heading # HeadingAtIndex(waypoints, 0)

\* The handler of w ends in this step.
HandlerEnds(w) == pc[w] # "done" /\ pc'[w] = "done"

\* C20: a writer is in the server's clients set exactly while its handler is
\* active: the connect adds it and every way out of the handler (the loop's
\* end, ConnectionResetError, any other exception) removes it; and the step
\* in which one client's handler ends leaves the running flag and every
\* other client's handler, batches and membership as they were.
C20_ClientsAreActiveHandlers ==
    /\ [](clients = Active)
    /\ [][\A w \in Writers :
             HandlerEnds(w)
             => /\ running' = running
                /\ w \notin clients'
                /\ \A v \in Writers \ {w} :
                      /\ pc'[v] = pc[v]
                      /\ wake'[v] = wake[v]
                      /\ written'[v] = written[v]
                      /\ (v \in clients') <=> (v \in clients)]_vars

\* One client has gone after a batch of its own (its drain failed) while the
\* server runs on and the other client is still served.
C20_Witness ==
    /\ running
    /\ \E w \in Writers :
          /\ pc[w] = "done"
          /\ written[w] >= 1
          /\ w \notin clients
          /\ \E v \in Writers \ {w} : v \in clients /\ pc[v] = "sleep" /\ written[v] >= 1

\* ------------------------------------------------- courses and wind directions

\* The trackers whose headings are rendered: single legs from the origin to
\* the east, south and north, two to the west and one to the north by west.
CourseStarts ==
    { [waypoints |-> << Waypoint(0, 0), w >>, knots |-> 1, clock |-> 0] :
         w \in {Waypoint(0, 4), Waypoint(-4, 0), Waypoint(4, 0),
                Waypoint(-1, -4), Waypoint(1, -4), Waypoint(4, -1)} }

\* The wind directions the walk of _update_environmental_data may have got
\* to: the seed value and one ten degrees below 360.
CourseWinds == {InitialEnvironment.wind_direction, Rat(3501, 10)}

\* NMEASimulator(gps_tracker) on one of those trackers, after the wind has
\* walked to one of those directions.
InitCourse ==
    /\ \E s \in CourseStarts : TrackerBuilt(s)
    /\ \E w \in CourseWinds :
          environment = [InitialEnvironment EXCEPT !.wind_direction = w]
    /\ messages = <<>>
    /\ updates = 0
    /\ InitServer
    /\ nmea = NoNmea

SpecCourse == InitCourse /\ [][NextSim]_vars

\* The reader's side of a direction field: digits, a point and one digit,
\* no sign, and a value below 360 (3600 tenths).
IsDirection(text) ==
    /\ Len(text) >= 3
    /\ text[Len(text) - 1] = "."
    /\ \A i \in (1..Len(text)) \ {Len(text) - 1} : IsDigit(text[i])
    /\ ParseDigits(SubSeq(text, 1, Len(text) - 2) \o <<text[Len(text)]>>) < 3600

\* The course, heading and wind direction fields of a batch.
DirectionFields(batch) ==
    << Field(batch[1], 9),
       Field(batch[2], 2), Field(batch[2], 4),
       Field(batch[3], 2), Field(batch[3], 4),
       Field(batch[4], 2),
       Field(batch[10], 2), Field(batch[10], 4),
       Field(batch[11], 2) >>

\* C21: every course or heading field of a batch (GPRMC course, IIVHW
\* heading, GPVTG course, IIHDT heading) and every wind direction field
\* (WIMWD, WIMWV) is a value in [0, 360), for every tracker heading and wind
\* direction in [0, 360) and every jitter sample.
C21_DirectionsBelow360 ==
    BatchReturned =>
        \A i \in 1..Len(DirectionFields(messages)) :
            IsDirection(DirectionFields(messages)[i])

====
